---- MODULE Spec2Model ----
(***************************************************************************)
(* Model of the policy-document preprocessing pipeline                     *)
(* (scripts/preprocess_rag_data.py, class AdvancedRAGPreprocessor).        *)
(*                                                                         *)
(* Strings.  A Python str is modelled exactly, in run-length form: a       *)
(* sequence of runs <<c, n>> (character c repeated n >= 1 times) in which  *)
(* adjacent runs carry different characters.  A character is a one-letter  *)
(* string; the Hangul syllables, which the module's character set cannot   *)
(* spell, are written by name: "GA" is U+AC00, "NA" U+B098, "DA" U+B2E4.   *)
(***************************************************************************)
EXTENDS Integers, Sequences, FiniteSets

VARIABLES
    inputDir,       \* the *.md files of input_dir: stem -> content (or Undecodable)
    pc,             \* position in process_all_files / process_file
    run,            \* 1 for the first execution of main(), 2 for the second
    first_run,      \* the records the first execution wrote
    first_dir,      \* the input directory as the first execution found it
    todo,           \* md_files not yet visited by the for loop
    cur,            \* md_file being processed
    lines,          \* semantic_chunking: content.split('\n')
    i,              \* semantic_chunking: loop index
    current_chunk,  \* semantic_chunking: buffer of lines
    current_size,   \* semantic_chunking: running size of the buffer
    chunks,         \* semantic_chunking: spans emitted so far
    all_chunks,     \* process_all_files: merged records
    file_stats,     \* process_all_files: per-file statistics
    jsonl,          \* enhanced_chunks.jsonl
    stats,          \* processing_stats.json
    arg,            \* the arguments of a function called on its own
    ret,            \* what that call returned ("pending" before)
    loaded,         \* create_faiss_vectors.main: the chunks load_all_chunks returned
    index,          \* create_faiss_vectors.main: the vectors of the index in memory
    index_file,     \* data/vectors/policy_chunks.faiss
    metadata_file,  \* data/vectors/chunks_metadata.json
    raised,         \* an exception left create_faiss_vectors.main
    hierarchy,      \* extract_hierarchy: the nodes appended so far
    current_section \* extract_hierarchy: the title of the last header seen

\* the state of the vector store
vstore == <<loaded, index, index_file, metadata_file, raised>>

\* the state of extract_hierarchy
outline == <<hierarchy, current_section>>

vars == <<inputDir, pc, run, first_run, first_dir, todo, cur, lines, i,
          current_chunk, current_size, chunks, all_chunks, file_stats, jsonl,
          stats, arg, ret, vstore, outline>>

----------------------------------------------------------------------------
(* Bounds of the model *)

MaxLines == 3
MaxPieces == 5
KwRun == 7
ShortLen == 60
MidLen == 150
SentLen == 250
HeadLen == 20
BigLen == 450
LongLen == 900
NearLen == 780

(* Program constants *)

target_chunk_size == 800
overlap_size == 100
min_closure == 200
preview_size == 200
id_pad == 3
hash_len == 8
kw_min == 2
kw_max == 8
kw_top == 20

----------------------------------------------------------------------------
(* str primitives *)

EmptyStr == <<>>

Chr(c) == <<<<c, 1>>>>

Rep(c, n) == IF n = 0 THEN <<>> ELSE <<<<c, n>>>>

\* s + t
Cat(s, t) ==
    IF s = <<>> THEN t
    ELSE IF t = <<>> THEN s
    ELSE IF s[Len(s)][1] = t[1][1]
         THEN SubSeq(s, 1, Len(s) - 1)
              \o <<<<t[1][1], s[Len(s)][2] + t[1][2]>>>>
              \o Tail(t)
         ELSE s \o t

RECURSIVE StrLen(_)
\* len(s)
StrLen(s) == IF s = <<>> THEN 0 ELSE Head(s)[2] + StrLen(Tail(s))

RECURSIVE Take(_, _)
\* s[:k]
Take(s, k) ==
    IF k = 0 \/ s = <<>> THEN <<>>
    ELSE IF Head(s)[2] <= k
         THEN <<Head(s)>> \o Take(Tail(s), k - Head(s)[2])
         ELSE <<<<Head(s)[1], k>>>>

RECURSIVE Drop(_, _)
\* s[k:]
Drop(s, k) ==
    IF s = <<>> THEN <<>>
    ELSE IF k = 0 THEN s
    ELSE IF Head(s)[2] <= k
         THEN Drop(Tail(s), k - Head(s)[2])
         ELSE <<<<Head(s)[1], Head(s)[2] - k>>>> \o Tail(s)

\* s[-k:]  (k > 0)
LastChars(s, k) == IF StrLen(s) <= k THEN s ELSE Drop(s, StrLen(s) - k)

NL == Chr("\n")

RECURSIVE Join(_)
\* '\n'.join(ls)
Join(ls) ==
    IF ls = <<>> THEN EmptyStr
    ELSE IF Len(ls) = 1 THEN ls[1]
    ELSE Cat(Cat(ls[1], NL), Join(Tail(ls)))

RECURSIVE SplitAcc(_, _, _)
SplitAcc(s, line, acc) ==
    IF s = <<>> THEN Append(acc, line)
    ELSE IF Head(s)[1] = "\n"
         THEN SplitAcc(Tail(s), EmptyStr,
                       Append(acc, line) \o [k \in 1..(Head(s)[2] - 1) |-> EmptyStr])
         ELSE SplitAcc(Tail(s), Append(line, Head(s)), acc)

\* s.split('\n')
Split(s) == SplitAcc(s, EmptyStr, <<>>)

RECURSIVE FromChars(_)
\* the str spelled by a sequence of characters
FromChars(cs) == IF cs = <<>> THEN EmptyStr ELSE Cat(Chr(Head(cs)), FromChars(Tail(cs)))

\* character classes of the re module, restricted to the model's alphabet
IsSpace(c) == c \in {" ", "\t", "\r", "\n"}
IsDigit(c) == c \in {"0", "1", "2", "3", "4", "5", "6", "7", "8", "9"}
IsHangul(c) ==
    c \in {"GA", "NA", "DA", "GEUM", "JI", "JE", "HAN", "SEUNG", "IN", "HEO",
           "TEM", "PEUL", "RIT"}

----------------------------------------------------------------------------
(* section_patterns, each tried with re.match against one line *)

\* r'^#{1,6}\s+.*$'
IsHeader(line) ==
    /\ Len(line) >= 2
    /\ line[1][1] = "#" /\ line[1][2] <= 6
    /\ IsSpace(line[2][1])

\* index of the first run that is not a digit run (Len+1 when there is none)
FirstNonDigit(line) ==
    IF \E k \in 1..Len(line) : ~IsDigit(line[k][1])
    THEN CHOOSE k \in 1..Len(line) :
            /\ ~IsDigit(line[k][1])
            /\ \A j \in 1..(k - 1) : IsDigit(line[j][1])
    ELSE Len(line) + 1

\* r'^\d+\.\s+.*$'
IsNumbered(line) ==
    LET k == FirstNonDigit(line) IN
    /\ k >= 2 /\ k + 1 <= Len(line)
    /\ line[k] = <<".", 1>>
    /\ IsSpace(line[k + 1][1])

\* r'^-\s+.*$'
IsBullet(line) ==
    /\ Len(line) >= 2
    /\ line[1] = <<"-", 1>>
    /\ IsSpace(line[2][1])

\* the last character of the line that is not white space is in cs
EndsWith(line, cs) ==
    \E k \in 1..Len(line) :
        /\ line[k][1] \in cs
        /\ \A j \in (k + 1)..Len(line) : IsSpace(line[j][1])

\* r'.*[.!?]\s*$'
IsSentenceEnd(line) == EndsWith(line, {".", "!", "?"})

\* r'.*:\s*$'
IsColonEnd(line) == EndsWith(line, {":"})

\* any(re.match(pattern, line) for pattern in self.section_patterns)
is_section_boundary(line) ==
    \/ IsHeader(line)
    \/ IsNumbered(line)
    \/ IsBullet(line)
    \/ IsSentenceEnd(line)
    \/ IsColonEnd(line)

----------------------------------------------------------------------------
(* semantic_chunking *)

RECURSIVE SumLen(_)
\* sum of len(line) over a buffer
SumLen(ls) == IF ls = <<>> THEN 0 ELSE StrLen(Head(ls)) + SumLen(Tail(ls))

\* ShouldClose with the size test forgetting the incoming line
ShouldCloseIgnoringLine(buf, size, line) ==
    \/ (size > target_chunk_size /\ buf # <<>>)
    \/ (is_section_boundary(line) /\ buf # <<>> /\ size > min_closure)

\* a condition that closes the buffer at every boundary line
ShouldCloseAtBoundary(buf, size, line) ==
    \/ (size + StrLen(line) > target_chunk_size /\ buf # <<>>)
    \/ (is_section_boundary(line) /\ buf # <<>>)

\* the condition under which the buffer is closed before `line` is appended
ShouldClose(buf, size, line) ==
    \/ (size + StrLen(line) > target_chunk_size /\ buf # <<>>)
    \/ (is_section_boundary(line) /\ buf # <<>> /\ size > min_closure)

\* StartLine counting lines from 0
StartLineFromZero(buf, n) == n - Len(buf)

\* the start_line recorded for a buffer closed when i lines have been consumed
StartLine(buf, n) == n - Len(buf) + 1

\* the "size" recorded for a span
SpanSize(buf, size) == size

\* a span whose end_line is the index of the incoming line
SpanEndingAtNext(buf, size, n) ==
    [content |-> Join(buf), size |-> SpanSize(buf, size),
     start_line |-> StartLine(buf, n), end_line |-> n + 1]

\* the dict appended to chunks
Span(buf, size, n) ==
    [content |-> Join(buf), size |-> SpanSize(buf, size),
     start_line |-> StartLine(buf, n), end_line |-> n]

RECURSIVE OverlapFrom(_, _, _, _)
OverlapFrom(buf, j, ov, ovsize) ==
    IF j = 0 THEN ov
    ELSE IF ovsize + StrLen(buf[j]) <= overlap_size
         THEN OverlapFrom(buf, j - 1, <<buf[j]>> \o ov, ovsize + StrLen(buf[j]))
         ELSE ov

\* an overlap of at most the last line of the closed buffer
OverlapLastOnly(buf) ==
    IF buf # <<>> /\ StrLen(buf[Len(buf)]) <= overlap_size
    THEN <<buf[Len(buf)]>>
    ELSE <<>>

\* the trailing lines of a closed buffer that seed the next one
OverlapLines(buf) == OverlapFrom(buf, Len(buf), <<>>, 0)

----------------------------------------------------------------------------
(* generate_keywords *)

\* the matches of [GA-HIH]{2,8} inside one maximal stretch of Hangul syllables:
\* each match is greedy (kw_max syllables while that many are left) and the scan
\* resumes where the match ended; a rest shorter than kw_min matches nothing
ChopTokens(stretch) ==
    LET n == StrLen(stretch)
        whole == n \div kw_max
        cnt == IF n % kw_max >= kw_min THEN whole + 1 ELSE whole
    IN [k \in 1..cnt |-> Take(Drop(stretch, kw_max * (k - 1)), kw_max)]

RECURSIVE FindFrom(_, _)
FindFrom(s, stretch) ==
    IF s = <<>> THEN ChopTokens(stretch)
    ELSE IF IsHangul(Head(s)[1])
         THEN FindFrom(Tail(s), Append(stretch, Head(s)))
         ELSE ChopTokens(stretch) \o FindFrom(Tail(s), EmptyStr)

\* re.findall(r'[GA-HIH]{2,8}', content)
korean_nouns(content) == FindFrom(content, EmptyStr)

\* the positions at which a word occurs for the first time
FirstSeen(words) ==
    {k \in 1..Len(words) : \A j \in 1..(k - 1) : words[j] # words[k]}

RECURSIVE Ascending(_)
\* a set of positions as an increasing sequence
Ascending(ps) ==
    IF ps = {} THEN <<>>
    ELSE LET m == CHOOSE x \in ps : \A y \in ps : x <= y
         IN <<m>> \o Ascending(ps \ {m})

\* word_freq.items(): a dict keeps its keys in insertion order
CountWords(words) ==
    LET firsts == Ascending(FirstSeen(words))
    IN [k \in 1..Len(firsts) |->
           <<words[firsts[k]],
             Cardinality({j \in 1..Len(words) : words[j] = words[firsts[k]]})>>]

word_freq(content) == CountWords(korean_nouns(content))

\* where a new item goes in a list sorted by descending freq: behind every item
\* whose freq is not smaller (the sort is stable)
InsertAt(sorted, item) ==
    Cardinality({k \in 1..Len(sorted) : sorted[k][2] >= item[2]})

RECURSIVE SortByFreq(_, _)
\* sorted(word_freq.items(), key=lambda x: x[1], reverse=True)
SortByFreq(items, sorted) ==
    IF items = <<>> THEN sorted
    ELSE LET p == InsertAt(sorted, Head(items)) IN
         SortByFreq(Tail(items),
                    SubSeq(sorted, 1, p) \o <<Head(items)>> \o SubSeq(sorted, p + 1, Len(sorted)))

sorted_words(content) == SortByFreq(word_freq(content), <<>>)

\* IsFrequent letting through a word seen once
IsFrequentOnce(freq) == freq >= 1

\* the test a word of the leading kw_top must pass to become a keyword
IsFrequent(freq) == freq > 1

RECURSIVE KeepFrequent(_)
KeepFrequent(items) ==
    IF items = <<>> THEN <<>>
    ELSE IF IsFrequent(Head(items)[2])
         THEN <<Head(items)[1]>> \o KeepFrequent(Tail(items))
         ELSE KeepFrequent(Tail(items))

\* [word for word, freq in sorted_words[:20] if freq > 1]
generate_keywords(content) ==
    LET sw == sorted_words(content) IN
    KeepFrequent(SubSeq(sw, 1, IF Len(sw) < kw_top THEN Len(sw) ELSE kw_top))

----------------------------------------------------------------------------
(* get_context *)

Ellipsis == Rep(".", 3)

\* PrevContent without the marker
PrevContentBare(chs, idx) ==
    IF idx > 0
    THEN LastChars(chs[idx].content, preview_size)
    ELSE EmptyStr

\* context["prev_content"] for the chunk at 0-based index idx
PrevContent(chs, idx) ==
    IF idx > 0
    THEN Cat(LastChars(chs[idx].content, preview_size), Ellipsis)
    ELSE EmptyStr

\* context["next_content"] for the chunk at 0-based index idx
NextContent(chs, idx) ==
    IF idx < Len(chs) - 1
    THEN Cat(Ellipsis, Take(chs[idx + 2].content, preview_size))
    ELSE EmptyStr

get_context(chs, idx) ==
    [prev_content |-> PrevContent(chs, idx), next_content |-> NextContent(chs, idx)]

----------------------------------------------------------------------------
(* chunk identifiers *)

HexDigits == <<"0", "1", "2", "3", "4", "5", "6", "7", "8", "9",
               "a", "b", "c", "d", "e", "f">>

Alphabet == <<"GA", "NA", "DA", " ", "\n", "\t", "\r", "#", "-", ".", "!", "?",
              ":", "_", "a", "b", "m", "d",
              "0", "1", "2", "3", "4", "5", "6", "7", "8", "9">>

Code(c) == CHOOSE k \in 1..Len(Alphabet) : Alphabet[k] = c

HashModulus == 16 ^ 6

RECURSIVE Digest(_, _)
\* a fixed function of the whole text into 0..HashModulus-1; it stands for the
\* leading digits of hashlib.md5(text.encode('utf-8'))
Digest(s, h) ==
    IF s = <<>> THEN h
    ELSE Digest(Tail(s), (h * 31 + Code(Head(s)[1]) * 257 + Head(s)[2]) % HashModulus)

RECURSIVE Hex(_, _)
\* n written with exactly w hexadecimal digits
Hex(n, w) ==
    IF w = 0 THEN EmptyStr
    ELSE Cat(Hex(n \div 16, w - 1), Chr(HexDigits[(n % 16) + 1]))

\* content_hash[:8]
Hash8(content) == Hex(Digest(content, 7), hash_len)

RECURSIVE Decimal(_)
\* str(n) for n >= 0
Decimal(n) ==
    IF n < 10 THEN Chr(HexDigits[n + 1])
    ELSE Cat(Decimal(n \div 10), Chr(HexDigits[(n % 10) + 1]))

\* the padding of f"{n:03d}"
ZeroPad(n) ==
    IF StrLen(Decimal(n)) >= id_pad THEN EmptyStr
    ELSE Rep("0", id_pad - StrLen(Decimal(n)))

\* Format03d keeping three digits only
Format03dWrapped(n) == Cat(ZeroPad(n % 1000), Decimal(n % 1000))

\* f"{n:03d}"
Format03d(n) == Cat(ZeroPad(n), Decimal(n))

\* f"{file_path.stem}_{i:03d}_{content_hash[:8]}"
ChunkId(stem, idx, content) ==
    Cat(Cat(Cat(Cat(stem, Chr("_")), Format03d(idx)), Chr("_")), Hash8(content))

\* file_path.name for a file of input_dir.glob("*.md")
FileName(stem) == Cat(stem, FromChars(<<".", "m", "d">>))

----------------------------------------------------------------------------
(* process_file: the record built for the chunk at 0-based index idx.       *)
(* The record carries id, document_name, chunk_index, content.original,    *)
(* content.keywords, the line numbers and relationships of metadata,       *)
(* context and char_count.                                                 *)

\* ChunkIndex counting from 1
ChunkIndexFromOne(idx) == idx + 1

\* ChunkIndex counting across the documents of the run
ChunkIndexOfRun(idx) == Len(all_chunks) + idx

\* the chunk_index given to the record at enumerate position idx
ChunkIndex(idx) == idx

EnhancedChunk(stem, chs, idx) ==
    [id |-> ChunkId(stem, idx, chs[idx + 1].content),
     document_name |-> FileName(stem),
     chunk_index |-> ChunkIndex(idx),
     original |-> chs[idx + 1].content,
     keywords |-> generate_keywords(chs[idx + 1].content),
     start_line |-> chs[idx + 1].start_line,
     end_line |-> chs[idx + 1].end_line,
     has_previous |-> idx > 0,
     has_next |-> idx < Len(chs) - 1,
     position_in_document |-> <<idx + 1, Len(chs)>>,
     context |-> get_context(chs, idx),
     char_count |-> StrLen(chs[idx + 1].content)]

\* the list process_file returns for the spans chs
EnhancedChunks(stem, chs) == [k \in 1..Len(chs) |-> EnhancedChunk(stem, chs, k - 1)]

RECURSIVE SumChars(_)
\* sum(chunk.char_count for chunk in recs)
SumChars(recs) == IF recs = <<>> THEN 0 ELSE Head(recs).char_count + SumChars(Tail(recs))

\* the records of recs that hold some text
RECURSIVE NonEmptyRecs(_)
NonEmptyRecs(recs) ==
    IF recs = <<>> THEN <<>>
    ELSE IF Head(recs).char_count > 0
         THEN <<Head(recs)>> \o NonEmptyRecs(Tail(recs))
         ELSE NonEmptyRecs(Tail(recs))

\* a per-file statistic that leaves the empty records out of chunks_count
FileStatSkippingEmpty(recs) ==
    [chunks_count |-> Len(NonEmptyRecs(recs)),
     total_chars |-> SumChars(recs),
     avg_chunk_size |-> IF recs # <<>> THEN SumChars(recs) \div Len(recs) ELSE 0]

\* file_stats[md_file.name]
FileStat(recs) ==
    [chunks_count |-> Len(recs),
     total_chars |-> SumChars(recs),
     avg_chunk_size |-> IF recs # <<>> THEN SumChars(recs) \div Len(recs) ELSE 0]

----------------------------------------------------------------------------
(* The documents of the model *)

\* a file of input_dir: its text, or a file that open/read raises on
File(content) == [readable |-> TRUE, content |-> content]
Undecodable == [readable |-> FALSE, content |-> EmptyStr]

LEmpty == EmptyStr
LShort == Rep("GA", ShortLen)
LMid == Rep("NA", MidLen)
LSentence == Cat(Rep("GA", SentLen), Chr("."))
LHeading == Cat(Cat(Rep("#", 2), Chr(" ")), Rep("DA", HeadLen))
LBig == Rep("DA", BigLen)
LLong == Rep("NA", LongLen)
LNear == Rep("GA", NearLen)

LineCatalog == {LEmpty, LShort, LMid, LSentence, LHeading, LBig, LLong, LNear}
SmallCatalog == {LEmpty, LShort, LLong}

\* the sequences of at most n lines over a catalog
LineSeqs(catalog, n) == UNION {[1..k -> catalog] : k \in 0..n}

Docs == {Join(ls) : ls \in LineSeqs(LineCatalog, MaxLines)}
SmallDocs == {Join(ls) : ls \in LineSeqs(SmallCatalog, MaxLines - 1)}

StemA == Chr("a")
StemB == FromChars(<<"a", "_", "0", "0", "1">>)
Stems == {StemA, StemB}

\* one file with any document, or several files with small documents
Dirs ==
    [{StemA} -> {File(c) : c \in Docs} \cup {Undecodable}]
    \cup UNION {[d -> {File(c) : c \in SmallDocs} \cup {Undecodable}] :
                    d \in SUBSET Stems}

\* the orders in which glob may list the files
Orders(d) == {o \in [1..Cardinality(d) -> d] : \A x \in d : \E k \in DOMAIN o : o[k] = x}

----------------------------------------------------------------------------
(* process_all_files *)

\* no function has been called on its own
NoReturn == [done |-> FALSE, value |-> <<>>]

\* an output file that has not been written
NotWritten == [written |-> FALSE, data |-> <<>>]

\* Python's None, where a str may stand
None == <<<<"None", 0>>>>

\* create_faiss_vectors has not been run, extract_hierarchy has not been called
NoStore ==
    /\ loaded = <<>>
    /\ index = <<>>
    /\ index_file = NotWritten
    /\ metadata_file = NotWritten
    /\ raised = FALSE
    /\ hierarchy = <<>>
    /\ current_section = None

Init ==
    /\ inputDir \in Dirs
    /\ pc = "start"
    /\ run = 1
    /\ first_run = <<>>
    /\ first_dir = inputDir
    /\ todo = <<>>
    /\ cur = EmptyStr
    /\ lines = <<>>
    /\ i = 0
    /\ current_chunk = <<>>
    /\ current_size = 0
    /\ chunks = <<>>
    /\ all_chunks = <<>>
    /\ file_stats = <<>>
    /\ jsonl = NotWritten
    /\ stats = NotWritten
    /\ arg = <<>>
    /\ ret = NoReturn
    /\ NoStore

\* md_files = list(glob); return when empty; all_chunks = []; file_stats = {}
Start ==
    /\ pc = "start"
    /\ \E o \in Orders(DOMAIN inputDir) :
          /\ todo' = o
          /\ pc' = IF o = <<>> THEN "done" ELSE "loop"
    /\ all_chunks' = <<>>
    /\ file_stats' = <<>>
    /\ UNCHANGED <<inputDir, run, first_run, first_dir, cur, lines, i, current_chunk,
                   current_size, chunks, jsonl, stats, arg, ret, vstore, outline>>

\* a process_file that keeps the spans of the document before
ReadFileKeepsSpans ==
    /\ pc = "loop"
    /\ todo # <<>>
    /\ inputDir[Head(todo)].readable
    /\ cur' = Head(todo)
    /\ todo' = Tail(todo)
    /\ lines' = Split(inputDir[Head(todo)].content)
    /\ chunks' = chunks
    /\ current_chunk' = <<>>
    /\ current_size' = 0
    /\ i' = 0
    /\ pc' = "chunking"
    /\ UNCHANGED <<inputDir, run, first_run, first_dir, all_chunks, file_stats, jsonl, stats,
                   arg, ret, vstore, outline>>

\* for md_file: process_file reads the file and semantic_chunking starts
ReadFile ==
    /\ pc = "loop"
    /\ todo # <<>>
    /\ inputDir[Head(todo)].readable
    /\ cur' = Head(todo)
    /\ todo' = Tail(todo)
    /\ lines' = Split(inputDir[Head(todo)].content)
    /\ chunks' = <<>>
    /\ current_chunk' = <<>>
    /\ current_size' = 0
    /\ i' = 0
    /\ pc' = "chunking"
    /\ UNCHANGED <<inputDir, run, first_run, first_dir, all_chunks, file_stats, jsonl, stats,
                   arg, ret, vstore, outline>>

\* a loop that gives up at the first document that raises
ReadFailStops ==
    /\ pc = "loop"
    /\ todo # <<>>
    /\ ~inputDir[Head(todo)].readable
    /\ todo' = <<>>
    /\ UNCHANGED <<inputDir, pc, run, first_run, first_dir, cur, lines, i, current_chunk,
                   current_size, chunks, all_chunks, file_stats, jsonl, stats,
                   arg, ret, vstore, outline>>

\* for md_file: read_markdown_file raises; except Exception: continue
ReadFail ==
    /\ pc = "loop"
    /\ todo # <<>>
    /\ ~inputDir[Head(todo)].readable
    /\ todo' = Tail(todo)
    /\ UNCHANGED <<inputDir, pc, run, first_run, first_dir, cur, lines, i, current_chunk,
                   current_size, chunks, all_chunks, file_stats, jsonl, stats,
                   arg, ret, vstore, outline>>

\* one iteration of semantic_chunking's while loop
ChunkStep ==
    /\ pc = "chunking"
    /\ i < Len(lines)
    /\ LET line == lines[i + 1]
           line_size == StrLen(line)
       IN IF ShouldClose(current_chunk, current_size, line)
          THEN /\ chunks' = Append(chunks, Span(current_chunk, current_size, i))
               /\ current_chunk' = Append(OverlapLines(current_chunk), line)
               /\ current_size' = SumLen(OverlapLines(current_chunk)) + line_size
          ELSE /\ chunks' = chunks
               /\ current_chunk' = Append(current_chunk, line)
               /\ current_size' = current_size + line_size
    /\ i' = i + 1
    /\ UNCHANGED <<inputDir, pc, run, first_run, first_dir, todo, cur, lines, all_chunks,
                   file_stats, jsonl, stats, arg, ret, vstore, outline>>

\* after the loop: the last buffer is emitted and the spans are returned
ChunkFinish ==
    /\ pc = "chunking"
    /\ i = Len(lines)
    /\ chunks' = IF current_chunk # <<>>
                 THEN Append(chunks, Span(current_chunk, current_size, i))
                 ELSE chunks
    /\ pc' = "enhance"
    /\ UNCHANGED <<inputDir, run, first_run, first_dir, todo, cur, lines, i, current_chunk,
                   current_size, all_chunks, file_stats, jsonl, stats, arg, ret, vstore, outline>>

\* process_file builds its records; process_all_files merges and counts them
Assemble ==
    /\ pc = "enhance"
    /\ LET recs == EnhancedChunks(cur, chunks)
       IN /\ all_chunks' = all_chunks \o recs
          /\ file_stats' = Append(file_stats, <<FileName(cur), FileStat(recs)>>)
    /\ pc' = "loop"
    /\ UNCHANGED <<inputDir, run, first_run, first_dir, todo, cur, lines, i, current_chunk,
                   current_size, chunks, jsonl, stats, arg, ret, vstore, outline>>

\* after the for loop: the output files are written when there is any record
Save ==
    /\ pc = "loop"
    /\ todo = <<>>
    /\ IF all_chunks # <<>>
       THEN /\ jsonl' = [written |-> TRUE, data |-> all_chunks]
            /\ stats' = [written |-> TRUE, data |->
                        [total_files |-> Cardinality(DOMAIN inputDir),
                         total_chunks |-> Len(all_chunks),
                         total_characters |-> SumChars(all_chunks),
                         avg_chunk_size |-> SumChars(all_chunks) \div Len(all_chunks),
                         file_details |-> file_stats]]
       ELSE UNCHANGED <<jsonl, stats>>
    /\ pc' = "done"
    /\ UNCHANGED <<inputDir, run, first_run, first_dir, todo, cur, lines, i, current_chunk,
                   current_size, chunks, all_chunks, file_stats, arg, ret, vstore, outline>>

\* main() is run a second time on the same input directory
Rerun ==
    /\ pc = "done"
    /\ run = 1
    /\ run' = 2
    /\ first_run' = all_chunks
    /\ pc' = "start"
    /\ todo' = <<>>
    /\ cur' = EmptyStr
    /\ lines' = <<>>
    /\ i' = 0
    /\ current_chunk' = <<>>
    /\ current_size' = 0
    /\ chunks' = <<>>
    /\ all_chunks' = <<>>
    /\ file_stats' = <<>>
    /\ UNCHANGED <<inputDir, first_dir, jsonl, stats, arg, ret, vstore, outline>>

\* files are removed from the input directory, then main() is run a second time
RerunOnFewer ==
    /\ pc = "done"
    /\ run = 1
    /\ \E d \in SUBSET (DOMAIN inputDir) :
          /\ d # DOMAIN inputDir
          /\ inputDir' = [s \in d |-> inputDir[s]]
    /\ run' = 2
    /\ first_run' = all_chunks
    /\ pc' = "start"
    /\ todo' = <<>>
    /\ cur' = EmptyStr
    /\ lines' = <<>>
    /\ i' = 0
    /\ current_chunk' = <<>>
    /\ current_size' = 0
    /\ chunks' = <<>>
    /\ all_chunks' = <<>>
    /\ file_stats' = <<>>
    /\ UNCHANGED <<first_dir, jsonl, stats, arg, ret, vstore, outline>>

Next ==
    \/ Start
    \/ ReadFile
    \/ ReadFail
    \/ ChunkStep
    \/ ChunkFinish
    \/ Assemble
    \/ Save
    \/ Rerun
    \/ RerunOnFewer

Spec == Init /\ [][Next]_vars

----------------------------------------------------------------------------
(* Functions called on their own, on arguments drawn from bounded sets *)

\* the pipeline is not running
Idle ==
    /\ inputDir = <<>>
    /\ pc = "call"
    /\ run = 1
    /\ first_run = <<>>
    /\ first_dir = <<>>
    /\ todo = <<>>
    /\ cur = EmptyStr
    /\ lines = <<>>
    /\ i = 0
    /\ current_chunk = <<>>
    /\ current_size = 0
    /\ chunks = <<>>
    /\ all_chunks = <<>>
    /\ file_stats = <<>>
    /\ jsonl = NotWritten
    /\ stats = NotWritten

pipeline == <<inputDir, pc, run, first_run, first_dir, todo, cur, lines, i, current_chunk,
              current_size, chunks, all_chunks, file_stats, jsonl, stats>>

RECURSIVE CatAll(_)
CatAll(ps) == IF ps = <<>> THEN EmptyStr ELSE Cat(Head(ps), CatAll(Tail(ps)))

Pieces == {Chr("GA"), Chr("NA"), Chr(" "), Rep("GA", KwRun)}

\* the chunk texts generate_keywords is tried on
Texts == {CatAll(ps) : ps \in UNION {[1..k -> Pieces] : k \in 0..MaxPieces}}

InitKeywords ==
    /\ Idle
    /\ arg \in {[content |-> t] : t \in Texts}
    /\ ret = NoReturn
    /\ NoStore

CallGenerateKeywords ==
    /\ pc = "call"
    /\ ~ret.done
    /\ ret' = [done |-> TRUE, value |-> generate_keywords(arg.content)]
    /\ UNCHANGED <<pipeline, arg, vstore, outline>>

NextKeywords == CallGenerateKeywords

SpecKeywords == InitKeywords /\ [][NextKeywords]_vars

\* the stems, chunk indexes and chunk texts ChunkId is tried on
ProbeStems == {StemA, StemB,
               FromChars(<<"a", "1">>),
               FromChars(<<"a", "_", "1">>),
               FromChars(<<"a", "_", "1", "0", "0", "0">>)}
ProbeIndexes == {0, 1, 10, 100, 999, 1000, 1001, 10000}
ProbeContents == {LEmpty, LShort}
IdInputs == [stem : ProbeStems, idx : ProbeIndexes, content : ProbeContents]

InitId ==
    /\ Idle
    /\ arg \in [a : IdInputs, b : IdInputs]
    /\ ret = NoReturn
    /\ NoStore

\* the ids process_file gives to two chunks
CallChunkId ==
    /\ pc = "call"
    /\ ~ret.done
    /\ ret' = [done |-> TRUE,
               value |-> <<ChunkId(arg.a.stem, arg.a.idx, arg.a.content),
                           ChunkId(arg.b.stem, arg.b.idx, arg.b.content)>>]
    /\ UNCHANGED <<pipeline, arg, vstore, outline>>

NextId == CallChunkId

\* the pipeline on its directories, and ChunkId on stems and indexes that the
\* documents of those directories do not reach
SpecId == (Init \/ InitId) /\ [][Next \/ NextId]_vars

----------------------------------------------------------------------------
(* create_faiss_vectors.main builds the vector store; the template        *)
(* generator loads it and searches it                                      *)

\* the longest chunk list and the largest top_k of the model
MaxChunks == 3
MaxTopK == 4

\* the variables of the preprocessing pipeline, which this program leaves alone
preprocessing == <<inputDir, run, first_run, first_dir, todo, cur, lines, i,
                   current_chunk, current_size, chunks, all_chunks, file_stats,
                   jsonl, stats>>

\* a chunk as preprocess_policies_v4 writes it to data/cleaned_v4/*.jsonl
PolicyChunk(n, text) ==
    [chunk_id |-> Cat(StemA, Cat(Chr("_"), Format03d(n))),
     content |-> text,
     metadata |-> [source_file |-> FileName(StemA),
                   char_count |-> StrLen(text),
                   chunk_index |-> n]]

\* the texts of the chunks: two chunks may hold the same text
PolicyTexts == {Rep("GA", ShortLen), Rep("NA", ShortLen)}

\* the chunk lists load_all_chunks may return, the empty one included
ChunkLists ==
    UNION {{[n \in 1..len |-> PolicyChunk(n, texts[n])] :
               texts \in [1..len -> PolicyTexts]} : len \in 0..MaxChunks}

\* model.encode followed by normalize_L2: the vector of a text
Embed(text) == [of |-> text]

\* the entry save_index_and_metadata appends for enumerate's pair (i, chunk),
\* written with its index one too high
MetadataEntryFromOne(idx, chunk) ==
    [index |-> idx + 1,
     chunk_id |-> chunk.chunk_id,
     content |-> chunk.content,
     metadata |-> chunk.metadata]

\* the entry save_index_and_metadata appends for enumerate's pair (i, chunk)
MetadataEntry(idx, chunk) ==
    [index |-> idx,
     chunk_id |-> chunk.chunk_id,
     content |-> chunk.content,
     metadata |-> chunk.metadata]

\* nothing has been called yet
InitVectors ==
    /\ Idle
    /\ arg = <<>>
    /\ ret = NoReturn
    /\ NoStore

\* chunks = load_all_chunks()
LoadAllChunks ==
    /\ pc = "call"
    /\ loaded' \in ChunkLists
    /\ pc' = "loaded"
    /\ UNCHANGED <<preprocessing, outline, arg, ret, index, index_file, metadata_file, raised>>

\* index, model = create_faiss_index(chunks): one vector per chunk, in order
CreateIndex ==
    /\ pc = "loaded"
    /\ loaded # <<>>
    /\ index' = [k \in 1..Len(loaded) |-> Embed(loaded[k].content)]
    /\ pc' = "created"
    /\ UNCHANGED <<preprocessing, outline, arg, ret, loaded, index_file, metadata_file, raised>>

\* a failure that is recorded while main goes on to save
CreateIndexFailsThenSaves ==
    /\ pc = "loaded"
    /\ raised' = TRUE
    /\ pc' = "created"
    /\ UNCHANGED <<preprocessing, outline, arg, ret, loaded, index, index_file, metadata_file>>

\* create_faiss_index raises (the model cannot be loaded, encode fails, or
\* embeddings.shape[1] of an empty chunk list); main has no handler
CreateIndexFails ==
    /\ pc = "loaded"
    /\ raised' = TRUE
    /\ pc' = "failed"
    /\ UNCHANGED <<preprocessing, outline, arg, ret, loaded, index, index_file, metadata_file>>

\* save_index_and_metadata: faiss.write_index
SaveIndex ==
    /\ pc = "created"
    /\ index_file' = [written |-> TRUE, data |-> index]
    /\ pc' = "index_saved"
    /\ UNCHANGED <<preprocessing, outline, arg, ret, loaded, index, metadata_file, raised>>

\* save_index_and_metadata: the metadata list and json.dump
SaveMetadata ==
    /\ pc = "index_saved"
    /\ metadata_file' =
           [written |-> TRUE,
            data |-> [k \in 1..Len(loaded) |-> MetadataEntry(k - 1, loaded[k])]]
    /\ pc' = "saved"
    /\ UNCHANGED <<preprocessing, outline, arg, ret, loaded, index, index_file, raised>>

\* main's test search only prints; the store is built
TestSearch ==
    /\ pc = "saved"
    /\ pc' = "built"
    /\ UNCHANGED <<preprocessing, arg, ret, vstore, outline>>

\* the label and the score faiss gives to a position it has no hit for
NoLabel == -1
NoScore == -1

\* index.search(query_embedding, top_k) on an index whose vectors rank as
\* `ranking` for the query: the labels and scores of the best top_k vectors,
\* best first, padded when the index holds fewer
IndexSearch(ranking, top_k) ==
    [indices |-> [r \in 1..top_k |->
                     IF r <= Len(ranking) THEN ranking[r] - 1 ELSE NoLabel],
     scores |-> [r \in 1..top_k |->
                     IF r <= Len(ranking) THEN Len(ranking) - r ELSE NoScore]]

\* seq[idx] in Python: a negative idx counts from the end
PyIndex(seq, idx) == IF idx >= 0 THEN seq[idx + 1] ELSE seq[Len(seq) + idx + 1]

\* the loop of search_relevant_policies over zip(scores[0], indices[0])
RECURSIVE FormatResults(_, _, _)
FormatResults(metadata, scores, indices) ==
    IF indices = <<>> THEN <<>>
    ELSE (IF Head(indices) < Len(metadata)
          THEN <<[content |-> PyIndex(metadata, Head(indices)).content,
                  metadata |-> PyIndex(metadata, Head(indices)).metadata,
                  score |-> Head(scores)]>>
          ELSE <<>>)
         \o FormatResults(metadata, Tail(scores), Tail(indices))

\* AlimTalkTemplateGenerator loads the two files and answers one query
SearchRelevantPolicies ==
    /\ pc = "built"
    /\ \E top_k \in 1..MaxTopK :
       \E ranking \in Orders(1..Len(index_file.data)) :
          LET reply == IndexSearch(ranking, top_k)
          IN  /\ arg' = [top_k |-> top_k]
              /\ ret' = [done |-> TRUE,
                         value |-> <<reply.indices, reply.scores,
                                     FormatResults(metadata_file.data,
                                                   reply.scores, reply.indices)>>]
    /\ pc' = "searched"
    /\ UNCHANGED <<preprocessing, vstore, outline>>

NextVectors ==
    \/ LoadAllChunks
    \/ CreateIndex
    \/ CreateIndexFails
    \/ SaveIndex
    \/ SaveMetadata
    \/ TestSearch
    \/ SearchRelevantPolicies

\* the build of the vector store on any chunk list, then one search
SpecVectors == InitVectors /\ [][NextVectors]_vars

----------------------------------------------------------------------------
(* generate_summary *)

\* the most sentences of a text generate_summary is tried on, and the lengths
\* of its long sentences
MaxSents == 5
LongSent == 160

\* the numbers of generate_summary
few_sentences == 3
short_summary == 200
long_summary == 300

\* the characters [.!?] of the split pattern
IsTerminator(c) == c \in {".", "!", "?"}

\* re.split(r'[.!?]\s*', s): `sent` is the sentence being read, `skip` holds
\* while the \s* of the last match is still consuming
RECURSIVE SentencesAcc(_, _, _, _)
SentencesAcc(s, sent, skip, acc) ==
    IF s = <<>> THEN Append(acc, sent)
    ELSE IF IsTerminator(Head(s)[1])
         THEN SentencesAcc(Tail(s), EmptyStr, TRUE,
                  Append(acc, sent) \o [k \in 1..(Head(s)[2] - 1) |-> EmptyStr])
         ELSE IF skip /\ IsSpace(Head(s)[1])
              THEN SentencesAcc(Tail(s), sent, TRUE, acc)
              ELSE SentencesAcc(Tail(s), Cat(sent, <<Head(s)>>), FALSE, acc)

Sentences(s) == SentencesAcc(s, EmptyStr, FALSE, <<>>)

\* max(items, key=len, default=""): the first of the longest items
Longest(items) ==
    IF items = <<>> THEN EmptyStr
    ELSE items[CHOOSE k \in 1..Len(items) :
                   /\ \A m \in 1..Len(items) : StrLen(items[m]) <= StrLen(items[k])
                   /\ \A m \in 1..(k - 1) : StrLen(items[m]) < StrLen(items[k])]

\* x in parts
Among(x, parts) == \E k \in 1..Len(parts) : parts[k] = x

\* parts with x appended when x is non-empty and not yet in parts
AppendNew(parts, x) ==
    IF x # EmptyStr /\ ~Among(x, parts) THEN Append(parts, x) ELSE parts

\* sep.join(parts)
RECURSIVE JoinWith(_, _)
JoinWith(sep, parts) ==
    IF parts = <<>> THEN EmptyStr
    ELSE IF Len(parts) = 1 THEN parts[1]
    ELSE Cat(Cat(parts[1], sep), JoinWith(sep, Tail(parts)))

\* s[:limit] + "..." if len(s) > limit else s
Shorten(s, limit) == IF StrLen(s) > limit THEN Cat(Take(s, limit), Ellipsis) ELSE s

\* the parts generate_summary selects from more than three sentences
summary_parts(sentences) ==
    AppendNew(AppendNew(<<sentences[1]>>,
                        Longest(SubSeq(sentences, 2, Len(sentences) - 1))),
              sentences[Len(sentences)])

generate_summary(content) ==
    LET sentences == Sentences(content)
    IN  IF Len(sentences) <= few_sentences
        THEN Shorten(content, short_summary)
        ELSE Shorten(JoinWith(FromChars(<<".", " ">>), summary_parts(sentences)),
                     long_summary)

\* the sentences and the separators the texts are made of
SentenceCatalog == {Rep("GA", 3), Rep("NA", 5), Rep("DA", LongSent), Rep("GA", LongSent + 1)}
Separators == {FromChars(<<".", " ">>), Chr("!"), FromChars(<<"?", "\n">>)}

\* the texts generate_summary is tried on: sentences joined by one separator,
\* ending with or without it
SummaryTexts ==
    UNION {{Cat(JoinWith(sep, ss), end) : end \in {EmptyStr, sep}} :
              <<sep, ss>> \in Separators
                              \X UNION {[1..k -> SentenceCatalog] : k \in 0..MaxSents}}

InitSummary ==
    /\ Idle
    /\ arg \in {[content |-> t] : t \in SummaryTexts}
    /\ ret = NoReturn
    /\ NoStore

CallGenerateSummary ==
    /\ pc = "call"
    /\ ~ret.done
    /\ ret' = [done |-> TRUE, value |-> generate_summary(arg.content)]
    /\ UNCHANGED <<pipeline, arg, vstore, outline>>

NextSummary == CallGenerateSummary

SpecSummary == InitSummary /\ [][NextSummary]_vars

----------------------------------------------------------------------------
(* generate_question_variants *)

\* the most words of a text generate_question_variants is tried on
MaxWords == 4

\* questions[:5]
max_variants == 5

\* the words that trigger questions, spelled by their syllables
Prohibited == FromChars(<<"GEUM", "JI">>)
Restricted == FromChars(<<"JE", "HAN">>)
Approval == FromChars(<<"SEUNG", "IN">>)
Permission == FromChars(<<"HEO", "GA">>)
Template == FromChars(<<"TEM", "PEUL", "RIT">>)

\* word in s, for a word whose neighbouring characters differ
Contains(s, word) ==
    \E k \in 1..(Len(s) - Len(word) + 1) :
        \A j \in 1..Len(word) :
            /\ s[k + j - 1][1] = word[j][1]
            /\ (1 < j /\ j < Len(word)) => s[k + j - 1][2] = 1

\* the fixed questions, spelled by their syllables
WhatIsProhibited ==
    FromChars(<<"MU", "EOT", "I", " ", "GEUM", "JI", "DOE", "NA", "YO", "?">>)
WhichRestrictions ==
    FromChars(<<"EO", "TTEON", " ", "JE", "HAN", "SA", "HANG", "I", " ",
                "IT", "NA", "YO", "?">>)
WhatApprovalConditions ==
    FromChars(<<"SEUNG", "IN", " ", "JO", "GEON", "EUN", " ",
                "MU", "EOT", "IN", "GA", "YO", "?">>)
HowToGetApproval ==
    FromChars(<<"EO", "TTEOH", "GE", " ", "SEUNG", "IN", "BAT", "EUL", " ",
                "SU", " ", "IT", "NA", "YO", "?">>)
HowToWriteTemplate ==
    FromChars(<<"TEM", "PEUL", "RIT", " ", "JAK", "SEONG", " ",
                "BANG", "BEOP", "EUN", "?">>)
WhatTemplateRules ==
    FromChars(<<"TEM", "PEUL", "RIT", " ", "GYU", "CHIK", "EUN", " ",
                "MU", "EOT", "IN", "GA", "YO", "?">>)

\* the two questions made from a keyword
TellMeAbout(keyword) ==
    Cat(keyword, FromChars(<<"E", " ", "DAE", "HAE", " ",
                             "AL", "RYEO", "JU", "SE", "YO">>))
PolicyAbout(keyword) ==
    Cat(keyword, FromChars(<<"WA", " ", "GWAN", "RYEON", "DOEN", " ",
                             "JEONG", "CHAEK", "EUN", "?">>))

\* the questions before the cut
all_questions(content) ==
    (IF Contains(content, Prohibited) \/ Contains(content, Restricted)
     THEN <<WhatIsProhibited, WhichRestrictions>> ELSE <<>>)
    \o (IF Contains(content, Approval) \/ Contains(content, Permission)
        THEN <<WhatApprovalConditions, HowToGetApproval>> ELSE <<>>)
    \o (IF Contains(content, Template)
        THEN <<HowToWriteTemplate, WhatTemplateRules>> ELSE <<>>)
    \o (IF generate_keywords(content) # <<>>
        THEN <<TellMeAbout(generate_keywords(content)[1]),
               PolicyAbout(generate_keywords(content)[1])>>
        ELSE <<>>)

generate_question_variants(content) ==
    SubSeq(all_questions(content), 1,
           IF Len(all_questions(content)) < max_variants
           THEN Len(all_questions(content)) ELSE max_variants)

\* the words of the texts: the trigger words and a word that triggers nothing
WordCatalog == {Prohibited, Restricted, Approval, Permission, Template, Rep("NA", 2)}

\* the texts generate_question_variants is tried on: words joined by spaces
QuestionTexts ==
    {JoinWith(Chr(" "), ws) : ws \in UNION {[1..k -> WordCatalog] : k \in 0..MaxWords}}

InitQuestions ==
    /\ Idle
    /\ arg \in {[content |-> t] : t \in QuestionTexts}
    /\ ret = NoReturn
    /\ NoStore

CallGenerateQuestionVariants ==
    /\ pc = "call"
    /\ ~ret.done
    /\ ret' = [done |-> TRUE, value |-> generate_question_variants(arg.content)]
    /\ UNCHANGED <<pipeline, arg, vstore, outline>>

NextQuestions == CallGenerateQuestionVariants

SpecQuestions == InitQuestions /\ [][NextQuestions]_vars

----------------------------------------------------------------------------
(* extract_hierarchy *)

\* the most lines of a document extract_hierarchy is tried on
MaxOutline == 4

\* the level given to list items
list_level == 99

\* the variables extract_hierarchy leaves alone
unread == <<inputDir, run, first_run, first_dir, todo, cur, current_chunk,
            current_size, chunks, all_chunks, file_stats, jsonl, stats>>

\* s.lstrip() and s.rstrip() on whitespace
RECURSIVE LStrip(_)
LStrip(s) == IF s # <<>> /\ IsSpace(Head(s)[1]) THEN LStrip(Tail(s)) ELSE s

RECURSIVE RStrip(_)
RStrip(s) ==
    IF s # <<>> /\ IsSpace(s[Len(s)][1]) THEN RStrip(SubSeq(s, 1, Len(s) - 1)) ELSE s

\* s.strip()
Strip(s) == RStrip(LStrip(s))

\* the node of a header line: group(1) is the run of '#', group(2) the rest
HeaderNode(line, n) ==
    [level |-> line[1][2],
     title |-> Strip(Tail(line)),
     line_number |-> n,
     type |-> "header"]

\* a list-item node that records no parent
ListItemNodeOrphan(line, n, section) ==
    [level |-> list_level,
     title |-> Strip(line),
     line_number |-> n,
     type |-> "list_item",
     parent_section |-> None]

\* the node of a numbered line
ListItemNode(line, n, section) ==
    [level |-> list_level,
     title |-> Strip(line),
     line_number |-> n,
     type |-> "list_item",
     parent_section |-> section]

\* the header nodes of an outline
Headers(nodes) == SelectSeq(nodes, LAMBDA node : node.type = "header")

\* max(levels of the headers, default=0)
Depth(nodes) ==
    IF Headers(nodes) = <<>> THEN 0
    ELSE CHOOSE d \in {Headers(nodes)[k].level : k \in 1..Len(Headers(nodes))} :
             \A k \in 1..Len(Headers(nodes)) : Headers(nodes)[k].level <= d

\* the lines of the documents: headers, numbered items, and lines that are
\* neither
OutlineCatalog ==
    {FromChars(<<"#", " ", "GA">>),
     FromChars(<<"#", "#", " ", " ", "NA", " ">>),
     Cat(Rep("#", 7), FromChars(<<" ", "DA">>)),
     FromChars(<<"1", ".", " ", "GA">>),
     FromChars(<<" ", "2", ".", " ", "NA">>),
     FromChars(<<"1", "0", ".", "\t", "DA", " ">>),
     Chr("GA")}

OutlineDocs == {Join(ls) : ls \in LineSeqs(OutlineCatalog, MaxOutline)}

InitHierarchy ==
    /\ Idle
    /\ arg \in {[content |-> d] : d \in OutlineDocs}
    /\ ret = NoReturn
    /\ NoStore

\* lines = content.split('\n'); hierarchy = []; current_section = None
CallExtractHierarchy ==
    /\ pc = "call"
    /\ lines' = Split(arg.content)
    /\ i' = 0
    /\ hierarchy' = <<>>
    /\ current_section' = None
    /\ pc' = "outline"
    /\ UNCHANGED <<unread, arg, ret, vstore>>

\* one iteration of the for loop over enumerate(lines)
HierarchyStep ==
    /\ pc = "outline"
    /\ i < Len(lines)
    /\ LET line == lines[i + 1] IN
       IF IsHeader(line)
       THEN /\ hierarchy' = Append(hierarchy, HeaderNode(line, i + 1))
            /\ current_section' = HeaderNode(line, i + 1).title
       ELSE IF IsNumbered(line)
            THEN /\ hierarchy' = Append(hierarchy,
                                        ListItemNode(line, i + 1, current_section))
                 /\ current_section' = current_section
            ELSE UNCHANGED outline
    /\ i' = i + 1
    /\ UNCHANGED <<unread, pc, lines, arg, ret, vstore>>

\* return {"structure": ..., "total_sections": ..., "depth": ...}
ReturnHierarchy ==
    /\ pc = "outline"
    /\ i = Len(lines)
    /\ ret' = [done |-> TRUE,
               value |-> <<hierarchy, Len(Headers(hierarchy)), Depth(hierarchy)>>]
    /\ pc' = "returned"
    /\ UNCHANGED <<unread, lines, i, arg, vstore, outline>>

NextHierarchy ==
    \/ CallExtractHierarchy
    \/ HierarchyStep
    \/ ReturnHierarchy

SpecHierarchy == InitHierarchy /\ [][NextHierarchy]_vars

----------------------------------------------------------------------------
(* preprocess_policies_v4: the functions *)

\* the numbers of preprocess_policies_v4
min_chars == 200
min_usable == 50
max_chars == 400
section_len == 50
max_keywords == 5

\* clean_text on a text of Hangul, '.', ' ' and '\n' (the other substitutions
\* match nothing in such a text): runs of newlines are cut to two, runs of
\* spaces to one, and the result is stripped
RECURSIVE SqueezeRuns(_)
SqueezeRuns(s) ==
    IF s = <<>> THEN <<>>
    ELSE <<IF Head(s)[1] = "\n" /\ Head(s)[2] >= 3 THEN <<"\n", 2>>
           ELSE IF Head(s)[1] = " " /\ Head(s)[2] >= 2 THEN <<" ", 1>>
           ELSE Head(s)>> \o SqueezeRuns(Tail(s))

clean_text(text) == Strip(SqueezeRuns(text))

\* re.split(r'(?<=[.!?])\s+', s): the whitespace after a terminator separates,
\* the terminator stays with its sentence
RECURSIVE SplitAfterTerminator(_, _, _)
SplitAfterTerminator(s, sent, acc) ==
    IF s = <<>> THEN Append(acc, sent)
    ELSE IF /\ IsSpace(Head(s)[1])
            /\ sent # <<>>
            /\ IsTerminator(sent[Len(sent)][1])
         THEN SplitAfterTerminator(LStrip(s), EmptyStr, Append(acc, sent))
         ELSE SplitAfterTerminator(Tail(s), Cat(sent, <<Head(s)>>), acc)

\* the loop of semantic_chunk_text over the sentences
RECURSIVE ChunkSentences(_, _, _)
ChunkSentences(sentences, current, acc) ==
    IF sentences = <<>>
    THEN IF Strip(current) # EmptyStr THEN Append(acc, Strip(current)) ELSE acc
    ELSE LET sentence == Strip(Head(sentences))
             potential == IF current # EmptyStr
                          THEN Cat(Cat(current, Chr(" ")), sentence)
                          ELSE sentence
         IN  IF sentence = EmptyStr
             THEN ChunkSentences(Tail(sentences), current, acc)
             ELSE IF StrLen(potential) <= max_chars
                  THEN ChunkSentences(Tail(sentences), potential, acc)
                  ELSE IF StrLen(current) >= min_chars
                       THEN ChunkSentences(Tail(sentences), sentence,
                                           Append(acc, Strip(current)))
                       ELSE ChunkSentences(Tail(sentences), potential, acc)

semantic_chunk_text(text) ==
    ChunkSentences(SplitAfterTerminator(text, EmptyStr, <<>>), EmptyStr, <<>>)

\* the section names and document types, spelled by their syllables
BodySection == FromChars(<<"BON", "MUN">>)
OtherPolicy == FromChars(<<"GI", "TA", "JEONG", "CHAEK">>)
ContentGuide == FromChars(<<"KON", "TEN", "CHEU", "GA", "I", "DEU">>)
AuditPolicy == FromChars(<<"SIM", "SA", "JEONG", "CHAEK">>)
AuditProhibited ==
    Cat(AuditPolicy, FromChars(<<"-", "GEUM", "JI", "SA", "HANG">>))
AuditAllowed ==
    Cat(AuditPolicy, FromChars(<<"-", "HEO", "YONG", "SA", "HANG">>))
OperationsPolicy == FromChars(<<"UN", "YEONG", "JEONG", "CHAEK">>)
PublicTemplate == FromChars(<<"GONG", "YONG", "TEM", "PEUL", "RIT">>)
InfoTalkPolicy ==
    FromChars(<<"AL", "RIM", "TOK", "GI", "BON", "JEONG", "CHAEK">>)

\* the words looked for in file names
KeyInfotalk == FromChars(<<"i", "n", "f", "o", "t", "a", "l", "k">>)
KeyContentGuide ==
    FromChars(<<"c", "o", "n", "t", "e", "n", "t", "-", "g", "u", "i", "d", "e">>)
KeyAudit == FromChars(<<"a", "u", "d", "i", "t">>)
KeyOperations ==
    FromChars(<<"o", "p", "e", "r", "a", "t", "i", "o", "n", "s">>)
KeyPublicTemplate ==
    FromChars(<<"p", "u", "b", "l", "i", "c", "t", "e", "m", "p", "l", "a", "t", "e">>)
KeyBlackList == FromChars(<<"b", "l", "a", "c", "k", "-", "l", "i", "s", "t">>)
KeyWhiteList == FromChars(<<"w", "h", "i", "t", "e", "-", "l", "i", "s", "t">>)

get_document_type(filename) ==
    IF Contains(filename, KeyContentGuide) THEN ContentGuide
    ELSE IF Contains(filename, KeyAudit)
         THEN IF Contains(filename, KeyBlackList) THEN AuditProhibited
              ELSE IF Contains(filename, KeyWhiteList) THEN AuditAllowed
              ELSE AuditPolicy
    ELSE IF Contains(filename, KeyOperations) THEN OperationsPolicy
    ELSE IF Contains(filename, KeyPublicTemplate) THEN PublicTemplate
    ELSE IF Contains(filename, KeyInfotalk) THEN InfoTalkPolicy
    ELSE OtherPolicy

\* the first line of a chunk, stripped and cut to 50 characters
extract_section_from_text(text) ==
    LET first_line == Strip(Split(text)[1])
    IN  IF first_line = EmptyStr THEN BodySection
        ELSE IF StrLen(first_line) > section_len
             THEN Cat(Take(first_line, section_len), Ellipsis)
             ELSE first_line

\* the keywords of file_keywords, spelled by their syllables
KwAlimTalk == FromChars(<<"AL", "RIM", "TOK">>)
KwInfoTalk == FromChars(<<"I", "n", "f", "o", "T", "a", "l", "k">>)
KwTemplateWriting == FromChars(<<"TEM", "PEUL", "RIT", "JAK", "SEONG">>)
KwGuide == FromChars(<<"GA", "I", "DEU">>)
KwAudit == FromChars(<<"SIM", "SA">>)
KwInspection == FromChars(<<"GEOM", "SU">>)
KwPolicy == FromChars(<<"JEONG", "CHAEK">>)
KwForbiddenWord == FromChars(<<"GEUM", "JI", "EO">>)
KwBlackList == FromChars(<<"BEUL", "RAEK", "RI", "SEU", "TEU">>)
KwRestrictions == FromChars(<<"JE", "HAN", "SA", "HANG">>)
KwAllowed == FromChars(<<"HEO", "YONG">>)
KwWhiteList == FromChars(<<"HWA", "I", "TEU", "RI", "SEU", "TEU">>)

\* the keywords a file name brings
FileKeywords(filename) ==
    (IF Contains(filename, KeyInfotalk) THEN {KwAlimTalk, KwInfoTalk} ELSE {})
    \cup (IF Contains(filename, KeyContentGuide)
          THEN {ContentGuide, KwTemplateWriting, KwGuide} ELSE {})
    \cup (IF Contains(filename, KeyAudit)
          THEN {KwAudit, KwInspection, Approval} ELSE {})
    \cup (IF Contains(filename, KeyOperations)
          THEN {OperationsPolicy, KwPolicy} ELSE {})
    \cup (IF Contains(filename, KeyPublicTemplate)
          THEN {PublicTemplate, Template} ELSE {})
    \cup (IF Contains(filename, KeyBlackList)
          THEN {KwForbiddenWord, KwBlackList, KwRestrictions} ELSE {})
    \cup (IF Contains(filename, KeyWhiteList)
          THEN {KwAllowed, KwWhiteList, Approval} ELSE {})

\* the alternatives of keyword_patterns that a text of Hangul and "API" can
\* hold (the others are words in Latin letters)
PatternWords ==
    {KwAlimTalk, Template, KwAudit, KwInspection, Approval, KwPolicy, KwGuide,
     FromChars(<<"KON", "TEN", "CHEU">>),
     FromChars(<<"BAL", "SONG">>),
     FromChars(<<"JEON", "SONG">>),
     FromChars(<<"CHAE", "NEOL">>),
     FromChars(<<"SA", "EOP", "JA">>),
     FromChars(<<"A", "P", "I">>),
     FromChars(<<"ME", "SI", "JI">>)}

\* set(keywords): the file's keywords and every alternative found in the text
KeywordSet(text, filename) ==
    FileKeywords(filename) \cup {w \in PatternWords : Contains(text, w)}

\* list(s)[:n] for a set s of strings: the iteration order of a set of strings
\* changes with the interpreter's hash seed, so any n of them in any order
FirstOfSet(s, n) ==
    LET len == IF Cardinality(s) < n THEN Cardinality(s) ELSE n
    IN  {o \in [1..len -> s] : \A j, k \in 1..len : j # k => o[j] # o[k]}

\* the lists extract_keywords may return
extract_keywords(text, filename) == FirstOfSet(KeywordSet(text, filename), max_keywords)

\* one element of chunk_data
ChunkData(filename_base, idx, chunk_text, keywords) ==
    [chunk_id |-> Cat(filename_base, Cat(Chr("_"), Format03d(idx + 1))),
     content |-> Strip(chunk_text),
     metadata |-> [source_file |-> FileName(filename_base),
                   section |-> extract_section_from_text(chunk_text),
                   keywords |-> keywords,
                   document_type |-> get_document_type(filename_base),
                   char_count |-> StrLen(chunk_text),
                   chunk_index |-> idx + 1]]

\* the loop of process_markdown_file over enumerate(chunks) from index idx on:
\* the lists of chunk_data it may build
RECURSIVE ChunkDataFrom(_, _, _)
ChunkDataFrom(filename_base, chs, idx) ==
    IF idx >= Len(chs) THEN {<<>>}
    ELSE IF StrLen(Strip(chs[idx + 1])) < min_usable
         THEN ChunkDataFrom(filename_base, chs, idx + 1)
         ELSE {<<ChunkData(filename_base, idx, chs[idx + 1], kws)>> \o rest :
                  kws \in extract_keywords(chs[idx + 1], filename_base),
                  rest \in ChunkDataFrom(filename_base, chs, idx + 1)}

\* the lists process_markdown_file may return for a file of that content
process_markdown_file(filename_base, content) ==
    ChunkDataFrom(filename_base, semantic_chunk_text(clean_text(content)), 0)

----------------------------------------------------------------------------
(* preprocess_policies_v4.main *)

\* the most sentences of a policy document, and the length of its shortest one
MaxV4Sents == 3
TinyLen == 30

\* the sentences of the policy documents; the last one has no terminator
V4Sentences ==
    {Cat(Rep("GA", TinyLen), Chr(".")),
     Cat(Rep("NA", MidLen), Chr(".")),
     Cat(Rep("GA", SentLen), Chr(".")),
     Cat(Rep("DA", BigLen), Chr(".")),
     Rep("NA", ShortLen)}
V4SmallSentences == {Cat(Rep("GA", TinyLen), Chr(".")), Cat(Rep("DA", BigLen), Chr("."))}

\* what stands between two sentences of a document
V4Separators == {Chr(" "), Rep("\n", 3)}

V4Texts(catalog, n) ==
    {JoinWith(sep, ss) : <<sep, ss>> \in V4Separators
                                            \X UNION {[1..k -> catalog] : k \in 0..n}}

\* data/policies_v2: one file with any document, or several files with small ones
V4Dirs ==
    [{StemA} -> {File(c) : c \in V4Texts(V4Sentences, MaxV4Sents)} \cup {Undecodable}]
    \cup UNION {[d -> {File(c) : c \in V4Texts(V4SmallSentences, MaxV4Sents - 1)}
                          \cup {Undecodable}] : d \in SUBSET Stems}

\* the variables preprocess_policies_v4.main leaves alone
unused == <<run, first_run, first_dir, cur, lines, i, current_chunk, current_size,
            chunks, arg, ret, loaded, index, index_file, metadata_file, outline>>

\* sum(chunk["metadata"]["char_count"] for chunk in chunks)
RECURSIVE SumCharCounts(_)
SumCharCounts(chs) ==
    IF chs = <<>> THEN 0
    ELSE Head(chs).metadata.char_count + SumCharCounts(Tail(chs))

\* file_stats[md_file.name], reporting one chunk more than were emitted
V4FileStatPlusOne(chs) ==
    [chunk_count |-> Len(chs) + 1,
     total_chars |-> SumCharCounts(chs),
     avg_chunk_length |-> IF chs # <<>> THEN SumCharCounts(chs) \div Len(chs) ELSE 0]

\* file_stats[md_file.name]
V4FileStat(chs) ==
    [chunk_count |-> Len(chs),
     total_chars |-> SumCharCounts(chs),
     avg_chunk_length |-> IF chs # <<>> THEN SumCharCounts(chs) \div Len(chs) ELSE 0]

\* main has not started; jsonl stands for processed_chunks.json and stats for
\* processing_statistics.json
InitV4 ==
    /\ inputDir \in V4Dirs
    /\ pc = "v4_start"
    /\ run = 1
    /\ first_run = <<>>
    /\ first_dir = <<>>
    /\ todo = <<>>
    /\ cur = EmptyStr
    /\ lines = <<>>
    /\ i = 0
    /\ current_chunk = <<>>
    /\ current_size = 0
    /\ chunks = <<>>
    /\ all_chunks = <<>>
    /\ file_stats = <<>>
    /\ jsonl = NotWritten
    /\ stats = NotWritten
    /\ arg = <<>>
    /\ ret = NoReturn
    /\ NoStore

\* all_chunks = []; file_stats = {}; md_files = list(input_dir.glob("*.md"))
V4Glob ==
    /\ pc = "v4_start"
    /\ todo' \in Orders(DOMAIN inputDir)
    /\ all_chunks' = <<>>
    /\ file_stats' = <<>>
    /\ pc' = "v4_loop"
    /\ UNCHANGED <<inputDir, jsonl, stats, raised, unused>>

\* for md_file: process_markdown_file returns, its chunks are merged and counted
V4ProcessFile ==
    /\ pc = "v4_loop"
    /\ todo # <<>>
    /\ inputDir[Head(todo)].readable
    /\ \E chs \in process_markdown_file(Head(todo), inputDir[Head(todo)].content) :
          /\ all_chunks' = all_chunks \o chs
          /\ file_stats' = Append(file_stats, <<FileName(Head(todo)), V4FileStat(chs)>>)
    /\ todo' = Tail(todo)
    /\ UNCHANGED <<inputDir, pc, jsonl, stats, raised, unused>>

\* for md_file: open or read raises in process_markdown_file; main has no
\* handler, the exception ends it
V4ReadFails ==
    /\ pc = "v4_loop"
    /\ todo # <<>>
    /\ ~inputDir[Head(todo)].readable
    /\ raised' = TRUE
    /\ pc' = "v4_crashed"
    /\ UNCHANGED <<inputDir, todo, all_chunks, file_stats, jsonl, stats, unused>>

\* after the loop: both files are written
V4Save ==
    /\ pc = "v4_loop"
    /\ todo = <<>>
    /\ jsonl' = [written |-> TRUE, data |-> all_chunks]
    /\ \E types \in FirstOfSet({all_chunks[k].metadata.document_type :
                                   k \in 1..Len(all_chunks)}, Len(all_chunks)) :
          stats' = [written |-> TRUE, data |->
                    [total_files |-> Cardinality(DOMAIN inputDir),
                     total_chunks |-> Len(all_chunks),
                     total_characters |-> SumCharCounts(all_chunks),
                     average_chunk_length |->
                         IF all_chunks # <<>>
                         THEN SumCharCounts(all_chunks) \div Len(all_chunks) ELSE 0,
                     file_statistics |-> file_stats,
                     document_types |-> types]]
    /\ pc' = "v4_done"
    /\ UNCHANGED <<inputDir, todo, all_chunks, file_stats, raised, unused>>

NextV4 ==
    \/ V4Glob
    \/ V4ProcessFile
    \/ V4ReadFails
    \/ V4Save

SpecV4 == InitV4 /\ [][NextV4]_vars

----------------------------------------------------------------------------
(* preprocess_policies_v2_optimized.py: OptimizedPolicyPreprocessor *)

\* the most pieces of a document of the optimized preprocessor
MaxV2Pieces == 3

\* steps 1 and 2 of clean_text_content: a run of spaces and tabs becomes one
\* space, a run of three or more newlines becomes two
RECURSIVE NormalizeRuns(_)
NormalizeRuns(s) ==
    IF s = <<>> THEN <<>>
    ELSE LET rest == NormalizeRuns(Tail(s))
         IN  IF Head(s)[1] \in {" ", "\t"}
             THEN IF rest # <<>> /\ rest[1][1] = " " THEN rest
                  ELSE <<<<" ", 1>>>> \o rest
             ELSE IF Head(s)[1] = "\n" /\ Head(s)[2] >= 3
                  THEN <<<<"\n", 2>>>> \o rest
                  ELSE <<Head(s)>> \o rest

\* step 3 of clean_text_content on lines of Hangul, '.' and ' ': none of them
\* is a header, list, code or table line, so each one is stripped
StripLines(ls) == [k \in DOMAIN ls |-> Strip(ls[k])]

\* clean_text_content on a text of Hangul, '.', ' ' and '\n' (steps 4 to 6
\* replace characters such a text does not have)
clean_text_content(content) == Strip(Join(StripLines(Split(NormalizeRuns(content)))))

\* len(content.split())
RECURSIVE WordCount(_, _)
WordCount(s, inword) ==
    IF s = <<>> THEN 0
    ELSE IF IsSpace(Head(s)[1]) THEN WordCount(Tail(s), FALSE)
    ELSE (IF inword THEN 0 ELSE 1) + WordCount(Tail(s), TRUE)

\* len(re.findall(r'[가-힣][^.!?]*[.!?]', content)): a match runs from a Hangul
\* syllable to the next terminator
RECURSIVE KoreanSentences(_, _)
KoreanSentences(s, open) ==
    IF s = <<>> THEN 0
    ELSE IF IsTerminator(Head(s)[1])
         THEN (IF open THEN 1 ELSE 0) + KoreanSentences(Tail(s), FALSE)
         ELSE KoreanSentences(Tail(s), open \/ IsHangul(Head(s)[1]))

\* the words _classify_document_type looks for
KeyGuide == FromChars(<<"g", "u", "i", "d", "e">>)
KeyOperation == FromChars(<<"o", "p", "e", "r", "a", "t", "i", "o", "n">>)
KeyTemplate == FromChars(<<"t", "e", "m", "p", "l", "a", "t", "e">>)
KwOperation == FromChars(<<"UN", "YEONG">>)

\* _classify_document_type, on a file name and a text without capitals
classify_document_type(content, filename) ==
    IF Contains(filename, KeyAudit) \/ Contains(content, KwAudit) THEN "audit_policy"
    ELSE IF Contains(filename, KeyGuide) \/ Contains(content, KwGuide) THEN "content_guide"
    ELSE IF Contains(filename, KeyOperation) \/ Contains(content, KwOperation)
         THEN "operation_policy"
    ELSE IF Contains(filename, KeyTemplate) \/ Contains(content, Template)
         THEN "template_guide"
    ELSE IF Contains(filename, KeyInfotalk) THEN "infotalk_policy"
    ELSE "general_policy"

\* extract_metadata on a cleaned text of Hangul, '.', ' ' and '\n': it has no
\* header line and none of the policy keywords
extract_metadata(content, filename) ==
    [filename |-> filename,
     headers |-> <<>>,
     stats |-> [char_count |-> StrLen(content),
                line_count |-> Len(Split(content)),
                word_count |-> WordCount(content, FALSE),
                korean_sentences |-> KoreanSentences(content, FALSE),
                header_count |-> 0],
     policy_keywords |-> <<>>,
     document_type |-> classify_document_type(content, filename)]

\* the pieces of the documents, and what stands between two of them
V2Pieces == {Cat(Rep("GA", TinyLen), Chr(".")), Rep("NA", ShortLen), Chr(" ")}
V2Separators == {Rep(" ", 2), Cat(Chr(" "), Rep("\n", 3)), NL}

\* the documents of up to n pieces
V2Texts(n) ==
    {JoinWith(sep, ss) : <<sep, ss>> \in V2Separators
                                            \X UNION {[1..k -> V2Pieces] : k \in 0..n}}

\* data/policies_v2: one file with any document, or several files with short ones
V2Dirs ==
    [{StemA} -> {File(c) : c \in V2Texts(MaxV2Pieces)} \cup {Undecodable}]
    \cup UNION {[d -> {File(c) : c \in V2Texts(1)} \cup {Undecodable}] :
                    d \in SUBSET Stems}

\* the output files of a document
CleanedName(stem) == Cat(stem, FromChars(<<"_", "c", "l", "e", "a", "n", "e", "d", ".", "m", "d">>))
MetadataName(stem) ==
    Cat(stem, FromChars(<<"_", "m", "e", "t", "a", "d", "a", "t", "a", ".",
                          "j", "s", "o", "n">>))

\* self.stats after process_file has read a document and cleaned it
AfterProcessFile(st, original, cleaned) ==
    [processed_files |-> st.processed_files,
     total_chars_original |-> st.total_chars_original + StrLen(original),
     total_chars_cleaned |-> st.total_chars_cleaned + StrLen(cleaned)]

\* self.stats["processed_files"] += 1
AfterSave(st) == [st EXCEPT !.processed_files = @ + 1]

\* summary["document_types"]: how many of the documents have each type
DocumentTypes(ms) ==
    [t \in {ms[k].document_type : k \in 1..Len(ms)} |->
        Cardinality({k \in 1..Len(ms) : ms[k].document_type = t})]

\* the preprocessor has been constructed.  stats stands for self.stats (but
\* for processing_date, the time of construction), all_chunks for
\* all_metadata, file_stats for the files save_cleaned_file has written in
\* output_dir and jsonl for processing_summary.json
InitV2 ==
    /\ inputDir \in V2Dirs
    /\ pc = "v2_start"
    /\ run = 1
    /\ first_run = <<>>
    /\ first_dir = <<>>
    /\ todo = <<>>
    /\ cur = EmptyStr
    /\ lines = <<>>
    /\ i = 0
    /\ current_chunk = <<>>
    /\ current_size = 0
    /\ chunks = <<>>
    /\ all_chunks = <<>>
    /\ file_stats = <<>>
    /\ jsonl = NotWritten
    /\ stats = [processed_files |-> 0, total_chars_original |-> 0,
                total_chars_cleaned |-> 0]
    /\ arg = <<>>
    /\ ret = NoReturn
    /\ NoStore

\* process_all_files finds no .md file and returns
V2NoFiles ==
    /\ pc = "v2_start"
    /\ DOMAIN inputDir = {}
    /\ pc' = "v2_done"
    /\ UNCHANGED <<inputDir, todo, all_chunks, file_stats, jsonl, stats, raised, unused>>

\* md_files = list(self.input_dir.glob("*.md")); all_metadata = []
V2Glob ==
    /\ pc = "v2_start"
    /\ DOMAIN inputDir # {}
    /\ todo' \in Orders(DOMAIN inputDir)
    /\ all_chunks' = <<>>
    /\ pc' = "v2_loop"
    /\ UNCHANGED <<inputDir, file_stats, jsonl, stats, raised, unused>>

\* for md_file: process_file and save_cleaned_file return
V2ProcessFile ==
    /\ pc = "v2_loop"
    /\ todo # <<>>
    /\ inputDir[Head(todo)].readable
    /\ inputDir[Head(todo)].content # EmptyStr
    /\ LET original == inputDir[Head(todo)].content
           cleaned == clean_text_content(original)
           metadata == extract_metadata(cleaned, FileName(Head(todo)))
       IN  /\ stats' = AfterSave(AfterProcessFile(stats, original, cleaned))
           /\ file_stats' = file_stats \o <<<<CleanedName(Head(todo)), cleaned>>,
                                            <<MetadataName(Head(todo)), metadata>>>>
           /\ all_chunks' = Append(all_chunks, metadata)
    /\ todo' = Tail(todo)
    /\ UNCHANGED <<inputDir, pc, jsonl, raised, unused>>

\* for md_file: the file is neither UTF-8 nor cp949, the second open raises
\* in process_file and the handler of the loop goes on
V2ReadFails ==
    /\ pc = "v2_loop"
    /\ todo # <<>>
    /\ ~inputDir[Head(todo)].readable
    /\ todo' = Tail(todo)
    /\ UNCHANGED <<inputDir, pc, all_chunks, file_stats, jsonl, stats, raised, unused>>

\* for md_file: the file is empty; process_file adds its lengths and the
\* division by len(original_content) raises ZeroDivisionError
V2DivideFails ==
    /\ pc = "v2_loop"
    /\ todo # <<>>
    /\ inputDir[Head(todo)].readable
    /\ inputDir[Head(todo)].content = EmptyStr
    /\ stats' = AfterProcessFile(stats, EmptyStr, clean_text_content(EmptyStr))
    /\ todo' = Tail(todo)
    /\ UNCHANGED <<inputDir, pc, all_chunks, file_stats, jsonl, raised, unused>>

\* for md_file: process_file returns and an open or a write of
\* save_cleaned_file raises OSError, before or after the cleaned file is there
V2SaveFails ==
    /\ pc = "v2_loop"
    /\ todo # <<>>
    /\ inputDir[Head(todo)].readable
    /\ inputDir[Head(todo)].content # EmptyStr
    /\ LET original == inputDir[Head(todo)].content
           cleaned == clean_text_content(original)
       IN  /\ stats' = AfterProcessFile(stats, original, cleaned)
           /\ file_stats' \in {file_stats,
                               Append(file_stats, <<CleanedName(Head(todo)), cleaned>>)}
    /\ todo' = Tail(todo)
    /\ UNCHANGED <<inputDir, pc, all_chunks, jsonl, raised, unused>>

\* after the loop: _save_processing_stats writes processing_summary.json
V2SaveStats ==
    /\ pc = "v2_loop"
    /\ todo = <<>>
    /\ jsonl' = [written |-> TRUE, data |->
                 [processing_stats |-> stats,
                  files_metadata |-> all_chunks,
                  document_types |-> DocumentTypes(all_chunks),
                  total_keywords |-> <<>>]]
    /\ pc' = "v2_done"
    /\ UNCHANGED <<inputDir, todo, all_chunks, file_stats, stats, raised, unused>>

NextV2 ==
    \/ V2NoFiles
    \/ V2Glob
    \/ V2ProcessFile
    \/ V2ReadFails
    \/ V2DivideFails
    \/ V2SaveFails
    \/ V2SaveStats

SpecV2 == InitV2 /\ [][NextV2]_vars

----------------------------------------------------------------------------
(* preprocess_policies_v4.extract_keywords, called by two executions *)

\* the chunk texts extract_keywords is tried on
KeywordTexts ==
    {JoinWith(Chr(" "), SubSeq(<<KwAlimTalk, Template, KwPolicy>>, 1, k)) : k \in 0..3}

\* the stems of the files the chunks come from
KeywordStems == {StemA, KeyAudit}

\* the variables extract_keywords leaves alone
unkeyed == <<inputDir, first_dir, todo, cur, lines, i, current_chunk, current_size,
             chunks, all_chunks, file_stats, jsonl, stats>>

\* neither execution has reached the call; first_run stands for the keywords
\* the first execution stores in the chunk's metadata
InitExtractKeywords ==
    /\ Idle
    /\ arg \in [text : KeywordTexts, filename : KeywordStems]
    /\ ret = NoReturn
    /\ NoStore

\* the first execution calls extract_keywords(chunk_text, filename_base)
CallExtractKeywords ==
    /\ pc = "call"
    /\ run = 1
    /\ first_run' \in extract_keywords(arg.text, arg.filename)
    /\ run' = 2
    /\ UNCHANGED <<unkeyed, pc, arg, ret, vstore, outline>>

\* the second execution, a new interpreter, makes the same call
CallExtractKeywordsAgain ==
    /\ pc = "call"
    /\ run = 2
    /\ ~ret.done
    /\ \E keywords \in extract_keywords(arg.text, arg.filename) :
          ret' = [done |-> TRUE, value |-> keywords]
    /\ UNCHANGED <<unkeyed, pc, run, first_run, arg, vstore, outline>>

NextExtractKeywords ==
    \/ CallExtractKeywords
    \/ CallExtractKeywordsAgain

SpecExtractKeywords == InitExtractKeywords /\ [][NextExtractKeywords]_vars

----------------------------------------------------------------------------
(* Properties of semantic_chunking, stated where it has returned           *)
(* (pc = "enhance": chunks holds the spans of the document split in lines) *)

\* the input lines a span's start_line..end_line name
SpanLines(k) == SubSeq(lines, chunks[k].start_line, chunks[k].end_line)

\* the lines of span k that lie after the previous span's end_line
NewLines(k) ==
    LET ls == Split(chunks[k].content)
        prevEnd == IF k = 1 THEN 0 ELSE chunks[k - 1].end_line
    IN SubSeq(ls, prevEnd - chunks[k].start_line + 2, Len(ls))

RECURSIVE ConcatNew(_)
ConcatNew(k) == IF k > Len(chunks) THEN <<>> ELSE NewLines(k) \o ConcatNew(k + 1)

\* C1: the spans, in emission order, cover the document: the first starts at
\* line 1, the last ends at the last line, each following span starts no later
\* than one line after the previous span's end, and the lines each span adds
\* after the previous span's end_line, concatenated, are the input lines,
\* each once.
C1_SpansCoverDocument ==
    pc = "enhance" =>
        /\ chunks # <<>>
        /\ chunks[1].start_line = 1
        /\ chunks[Len(chunks)].end_line = Len(lines)
        /\ \A k \in 2..Len(chunks) : chunks[k].start_line <= chunks[k - 1].end_line + 1
        /\ ConcatNew(1) = lines

\* three spans or more, one of which begins with lines of its predecessor
C1_Witness ==
    /\ pc = "enhance"
    /\ Len(chunks) >= 3
    /\ \E k \in 2..Len(chunks) : chunks[k].start_line <= chunks[k - 1].end_line

\* every span is a run of whole input lines
WholeLines ==
    \A k \in 1..Len(chunks) :
        /\ 1 <= chunks[k].start_line
        /\ chunks[k].start_line <= chunks[k].end_line
        /\ chunks[k].end_line <= Len(lines)
        /\ chunks[k].content = Join(SpanLines(k))

IsLongLine(j) == StrLen(lines[j]) > target_chunk_size

\* C2 as stated: no line is split across spans, and the span that holds a line
\* longer than the target size holds no other line.
C2_LongLineAlone ==
    pc = "enhance" =>
        /\ WholeLines
        /\ \A k \in 1..Len(chunks) :
              \A j \in chunks[k].start_line..chunks[k].end_line :
                  IsLongLine(j) => chunks[k].start_line = chunks[k].end_line

\* C2 as amended: no line is split across spans, and a line longer than the
\* target size is the last line of the span that holds it; the lines before it
\* in that span all belong to the previous span as well (they are the overlap
\* carried over) and sum to at most overlap_size characters.
C2_LongLineEndsItsSpan ==
    pc = "enhance" =>
        /\ WholeLines
        /\ \A k \in 1..Len(chunks) :
              \A j \in chunks[k].start_line..chunks[k].end_line :
                  IsLongLine(j) =>
                      /\ j = chunks[k].end_line
                      /\ \A m \in chunks[k].start_line..(j - 1) :
                            k > 1 /\ m <= chunks[k - 1].end_line
                      /\ SumLen(SubSeq(lines, chunks[k].start_line, j - 1)) <= overlap_size

\* a long line whose span begins with overlap lines
C2_Witness ==
    /\ pc = "enhance"
    /\ \E k \in 1..Len(chunks) :
          /\ chunks[k].start_line < chunks[k].end_line
          /\ IsLongLine(chunks[k].end_line)

\* C3: an empty document produces zero spans.
C3_EmptyDocNoSpans ==
    (pc = "enhance" /\ inputDir[cur].content = EmptyStr) => chunks = <<>>

\* C4: once a line ending in '.' has been appended and the buffer is larger
\* than the minimum-closure threshold, the step that takes a following
\* non-boundary line closes the buffer first.
C4_SplitAfterSentence ==
    [][(/\ pc = "chunking"
        /\ i >= 1
        /\ i < Len(lines)
        /\ EndsWith(lines[i], {"."})
        /\ current_size > min_closure
        /\ ~is_section_boundary(lines[i + 1]))
       => Len(chunks') = Len(chunks) + 1]_vars

\* C5: the size recorded for a span is the length of its content.
C5_SizeIsLen ==
    pc = "enhance" =>
        \A k \in 1..Len(chunks) : chunks[k].size = StrLen(chunks[k].content)

----------------------------------------------------------------------------
(* Properties of the records of process_file and process_all_files *)

SameDoc(p, q) == all_chunks[p].document_name = all_chunks[q].document_name

\* the record at position p of all_chunks is the first / last of its document
IsFirstOfDoc(p) == p = 1 \/ ~SameDoc(p - 1, p)
IsLastOfDoc(p) == p = Len(all_chunks) \/ ~SameDoc(p, p + 1)

\* C6: the records of one document lie side by side in the merged output and
\* carry the chunk_index values 0, 1, .., N-1 in that order, N being the
\* number of spans of the document.
C6_ContiguousIndexes ==
    \A p \in 1..Len(all_chunks) :
        /\ IsFirstOfDoc(p) =>
              /\ all_chunks[p].chunk_index = 0
              /\ \A q \in 1..(p - 1) : ~SameDoc(q, p)
        /\ ~IsFirstOfDoc(p) =>
              all_chunks[p].chunk_index = all_chunks[p - 1].chunk_index + 1
        /\ IsLastOfDoc(p) =>
              all_chunks[p].chunk_index = all_chunks[p].position_in_document[2] - 1

\* two documents of two records or more each have been merged
C6_Witness ==
    \E p, q \in 1..Len(all_chunks) :
        /\ ~SameDoc(p, q)
        /\ all_chunks[p].chunk_index >= 1
        /\ all_chunks[q].chunk_index >= 1

\* C7: prev_content is empty for the first record of a document and non-empty
\* for every other; next_content is empty for the last record of a document
\* and non-empty for every other.
C7_ContextPresence ==
    \A p \in 1..Len(all_chunks) :
        /\ IsFirstOfDoc(p) <=> all_chunks[p].context.prev_content = EmptyStr
        /\ IsLastOfDoc(p) <=> all_chunks[p].context.next_content = EmptyStr

\* a record whose previous chunk has empty text, and a single-chunk document
C7_Witness ==
    /\ \E p \in 2..Len(all_chunks) :
          SameDoc(p - 1, p) /\ all_chunks[p - 1].original = EmptyStr
    /\ \E p \in 1..Len(all_chunks) : IsFirstOfDoc(p) /\ IsLastOfDoc(p)

RECURSIVE RecordsOf(_, _)
\* the records of one document, in the order they have in recs
RecordsOf(recs, name) ==
    IF recs = <<>> THEN <<>>
    ELSE IF Head(recs).document_name = name
         THEN <<Head(recs)>> \o RecordsOf(Tail(recs), name)
         ELSE RecordsOf(Tail(recs), name)

\* C8: a second execution on the same input gives every document the records
\* the first execution gave it, field by field.
C8_SecondRunAgrees ==
    (run = 2 /\ pc = "done") =>
        \A stem \in DOMAIN inputDir :
            RecordsOf(all_chunks, FileName(stem)) = RecordsOf(first_run, FileName(stem))

\* both executions are over, and they visited two documents in different orders
C8_Witness ==
    /\ run = 2
    /\ pc = "done"
    /\ Len(all_chunks) >= 3
    /\ all_chunks # first_run

\* C9: the ids of two chunks are equal only if the chunks have the same
\* document stem and the same chunk index, and the records merged by one
\* execution of process_all_files have pairwise different ids.
C9_IdInjective ==
    /\ (ret.done /\ ret.value[1] = ret.value[2]) =>
           (arg.a.stem = arg.b.stem /\ arg.a.idx = arg.b.idx)
    /\ \A p, q \in 1..Len(all_chunks) :
           all_chunks[p].id = all_chunks[q].id => p = q

\* two chunks of equal text, one of index 1000 or more in a stem that the
\* other stem extends by an underscore and digits, got their ids
C9_Witness ==
    /\ ret.done
    /\ arg.a.stem = StemA /\ arg.a.idx = 1000
    /\ arg.b.stem = FromChars(<<"a", "_", "1", "0", "0", "0">>) /\ arg.b.idx = 0
    /\ arg.a.content = arg.b.content
    /\ ret.value[1] # ret.value[2]

\* how often a word is among the candidates extracted from the text
Occurrences(word, content) ==
    Cardinality({k \in 1..Len(korean_nouns(content)) : korean_nouns(content)[k] = word})

\* C10: every keyword returned has between 2 and 8 characters and occurs
\* more than once among the extracted candidates.
C10_KeywordsFrequentAndShort ==
    ret.done =>
        \A k \in 1..Len(ret.value) :
            /\ StrLen(ret.value[k]) >= kw_min
            /\ StrLen(ret.value[k]) <= kw_max
            /\ Occurrences(ret.value[k], arg.content) > 1

\* a keyword of the longest size was returned from a text that also holds a
\* candidate seen once and a stretch of syllables longer than a keyword
C10_Witness ==
    /\ ret.done
    /\ \E k \in 1..Len(ret.value) : StrLen(ret.value[k]) = kw_max
    /\ \E k \in 1..Len(korean_nouns(arg.content)) :
          Occurrences(korean_nouns(arg.content)[k], arg.content) = 1
    /\ \E k \in 1..Len(arg.content) :
          IsHangul(arg.content[k][1]) /\ arg.content[k][2] > kw_max

\* the records of recs that are long enough to be usable
RECURSIVE Usable(_)
Usable(recs) ==
    IF recs = <<>> THEN <<>>
    ELSE IF StrLen(Head(recs).original) >= min_usable
         THEN <<Head(recs)>> \o Usable(Tail(recs))
         ELSE Usable(Tail(recs))

\* C11: no emitted record has an original text shorter than the minimum usable
\* length, and a document's chunks_count counts only its usable chunks.
C11_NoShortRecords ==
    /\ \A p \in 1..Len(all_chunks) : StrLen(all_chunks[p].original) >= min_usable
    /\ \A q \in 1..Len(file_stats) :
           file_stats[q][2].chunks_count
               = Len(Usable(RecordsOf(all_chunks, file_stats[q][1])))

\* the documents of a directory that can be read
Readable(d) == {stem \in DOMAIN d : d[stem].readable}

\* file_stats has an entry for the file of that name
HasStat(name) == \E q \in 1..Len(file_stats) : file_stats[q][1] = name

\* C12: a document that cannot be read contributes no record and no
\* file_details entry, the loop still processes every readable document, and
\* an execution on the directory without the failing documents gives every
\* other document the same records.
C12_FailureIsolated ==
    /\ \A stem \in DOMAIN inputDir :
           ~inputDir[stem].readable =>
               /\ RecordsOf(all_chunks, FileName(stem)) = <<>>
               /\ ~HasStat(FileName(stem))
    /\ pc = "done" =>
           \A stem \in Readable(inputDir) : HasStat(FileName(stem))
    /\ (/\ run = 2
        /\ pc = "done"
        /\ Readable(first_dir) # DOMAIN first_dir
        /\ DOMAIN inputDir = Readable(first_dir)) =>
           /\ Len(all_chunks) = Len(first_run)
           /\ \A stem \in DOMAIN inputDir :
                  RecordsOf(all_chunks, FileName(stem))
                      = RecordsOf(first_run, FileName(stem))

\* the first execution skipped an unreadable document and wrote records for
\* another one; the second execution ran without the unreadable document
C12_Witness ==
    /\ run = 2
    /\ pc = "done"
    /\ Readable(first_dir) # DOMAIN first_dir
    /\ DOMAIN inputDir = Readable(first_dir)
    /\ first_run # <<>>
    /\ all_chunks # <<>>

\* a record without the two fields that carry the document's name
Unnamed(rec) == [rec EXCEPT !.id = EmptyStr, !.document_name = EmptyStr]

\* C13: the records of a document depend only on its name and its content:
\* once a second execution has assembled a document, in whatever order and
\* with whatever other documents, its records are those of the first
\* execution, and two documents of one execution with the same content get
\* records that differ in nothing but the name.
C13_RecordsDependOnDocumentOnly ==
    /\ run = 2 =>
           \A stem \in DOMAIN inputDir :
               HasStat(FileName(stem)) =>
                   RecordsOf(all_chunks, FileName(stem))
                       = RecordsOf(first_run, FileName(stem))
    /\ \A s, t \in Readable(inputDir) :
           (/\ HasStat(FileName(s))
            /\ HasStat(FileName(t))
            /\ inputDir[s].content = inputDir[t].content) =>
               LET rs == RecordsOf(all_chunks, FileName(s))
                   rt == RecordsOf(all_chunks, FileName(t))
               IN  /\ Len(rs) = Len(rt)
                   /\ \A k \in 1..Len(rs) : Unnamed(rs[k]) = Unnamed(rt[k])

\* the second execution took two readable documents in the other order and
\* has assembled the first of them
C13_Witness ==
    /\ run = 2
    /\ pc = "loop"
    /\ todo # <<>>
    /\ Readable(inputDir) = Stems
    /\ all_chunks # <<>>
    /\ first_run # <<>>
    /\ all_chunks[1].document_name # first_run[1].document_name

\* the sum of the chunks_count values of a file_details breakdown
RECURSIVE SumCounts(_)
SumCounts(details) ==
    IF details = <<>> THEN 0
    ELSE Head(details)[2].chunks_count + SumCounts(Tail(details))

\* the sum of the total_chars values of a file_details breakdown
RECURSIVE SumTotals(_)
SumTotals(details) ==
    IF details = <<>> THEN 0
    ELSE Head(details)[2].total_chars + SumTotals(Tail(details))

\* C17: in the written summary, total_chunks is the number of records in the
\* JSONL output and the sum of the per-file chunks_count values, and
\* total_characters is the sum of the per-file total_chars values.
C17_TotalsAgree ==
    stats.written =>
        /\ jsonl.written
        /\ stats.data.total_chunks = Len(jsonl.data)
        /\ stats.data.total_chunks = SumCounts(stats.data.file_details)
        /\ stats.data.total_characters = SumTotals(stats.data.file_details)

\* the summary of an execution that skipped one document and wrote several
\* records for another
C17_Witness ==
    /\ stats.written
    /\ run = 1
    /\ Readable(inputDir) # DOMAIN inputDir
    /\ Len(stats.data.file_details) = 1
    /\ stats.data.total_chunks >= 2
    /\ stats.data.total_characters > 0

\* C18: in the written summary, total_files is the number of documents that
\* were processed successfully, the number of entries of file_details.
C18_TotalFilesCountsProcessed ==
    stats.written => stats.data.total_files = Len(stats.data.file_details)

\* C19: a step of the loop closes the buffer before line L is appended if and
\* only if the buffer is non-empty and (buffer size + len(L) > 800, or L is a
\* boundary line and buffer size > 200); otherwise L, heading or not, is
\* appended to the buffer; and a span is only ever emitted from a non-empty
\* buffer.
C19_CloseRule ==
    [][/\ (pc = "chunking" /\ i < Len(lines) /\ i' = i + 1) =>
            LET L == lines[i + 1]
                size == SumLen(current_chunk)
                closes ==
                    /\ current_chunk # <<>>
                    /\ \/ size + StrLen(L) > target_chunk_size
                       \/ is_section_boundary(L) /\ size > min_closure
            IN  /\ closes <=> Len(chunks') = Len(chunks) + 1
                /\ closes => chunks'[Len(chunks')].content = Join(current_chunk)
                /\ ~closes => /\ chunks' = chunks
                              /\ current_chunk' = Append(current_chunk, L)
       /\ Len(chunks') > Len(chunks) => current_chunk # <<>>]_vars

\* a heading arrived while the buffer held a short line, and was absorbed
C19_Witness ==
    /\ pc = "chunking"
    /\ i >= 2
    /\ IsHeader(lines[i])
    /\ chunks = <<>>
    /\ Len(current_chunk) = i
    /\ SumLen(current_chunk) > StrLen(lines[i])

\* the last k lines of a buffer
Suffix(buf, k) == SubSeq(buf, Len(buf) - k + 1, Len(buf))

\* the length of the longest suffix of a buffer that fits in the overlap size
LongestFit(buf) ==
    CHOOSE k \in 0..Len(buf) :
        /\ SumLen(Suffix(buf, k)) <= overlap_size
        /\ \A m \in 0..Len(buf) :
               SumLen(Suffix(buf, m)) <= overlap_size => m <= k

\* C20: when a step closes the buffer, the next buffer is the longest suffix of
\* the closed buffer's lines whose summed length is at most the overlap size,
\* in order, followed by the incoming line; so every non-first span starts with
\* exactly those trailing lines of the span before it.
C20_OverlapIsLongestSuffix ==
    /\ [][(pc = "chunking" /\ Len(chunks') = Len(chunks) + 1 /\ i' = i + 1) =>
              LET seed == Suffix(current_chunk, LongestFit(current_chunk))
              IN  /\ current_chunk' = Append(seed, lines[i + 1])
                  /\ current_size' = SumLen(seed) + StrLen(lines[i + 1])]_vars
    /\ [](pc \in {"chunking", "enhance"} =>
              \A k \in 2..Len(chunks) :
                  /\ chunks[k].start_line
                         = chunks[k - 1].end_line + 1 - LongestFit(SpanLines(k - 1))
                  /\ chunks[k].content = Join(SpanLines(k)))

\* the buffer has just been closed and the new one starts with two lines of
\* the closed one
C20_Witness ==
    /\ pc = "chunking"
    /\ chunks # <<>>
    /\ i = chunks[Len(chunks)].end_line + 1
    /\ Len(current_chunk) >= 3

\* C14: a search returns at most top_k results, one for each position the
\* index reported as a hit and in the index's order, each the metadata entry of
\* that position with its score, by descending score, and nothing else: no
\* chunk is fabricated or repeated when the index pads with -1.
C14_OnlyHits ==
    pc = "searched" =>
        LET indices == ret.value[1]
            scores == ret.value[2]
            results == ret.value[3]
            hits == {r \in 1..Len(indices) : indices[r] >= 0}
        IN  /\ Len(results) <= arg.top_k
            /\ Len(results) = Cardinality(hits)
            /\ \A r \in 1..Len(results) :
                   /\ r \in hits
                   /\ results[r].content = metadata_file.data[indices[r] + 1].content
                   /\ results[r].metadata = metadata_file.data[indices[r] + 1].metadata
                   /\ results[r].score = scores[r]
            /\ \A r, s \in 1..Len(results) :
                   r < s => results[r].score >= results[s].score

\* C15: once the index and the metadata have been saved, the metadata array
\* has as many entries as the index has vectors, and entry i carries index i
\* and the chunk_id, content and metadata of the chunk whose text was embedded
\* as vector i.
C15_MetadataMatchesIndex ==
    metadata_file.written =>
        /\ index_file.written
        /\ Len(metadata_file.data) = Len(index_file.data)
        /\ \A k \in 1..Len(metadata_file.data) :
               LET entry == metadata_file.data[k]
               IN  /\ entry.index = k - 1
                   /\ entry.chunk_id = loaded[k].chunk_id
                   /\ entry.content = loaded[k].content
                   /\ entry.metadata = loaded[k].metadata
                   /\ index_file.data[k] = Embed(entry.content)

\* both files are written for a list of several chunks with different texts
C15_Witness ==
    /\ metadata_file.written
    /\ Len(loaded) >= 2
    /\ loaded[1].content # loaded[2].content

\* C16: once create_faiss_index has raised, main runs no further step and
\* neither file is written; a file is written only after create_faiss_index
\* has returned the index of the loaded chunks.
C16_FailureIsFatal ==
    /\ [](raised =>
              /\ pc = "failed"
              /\ ~index_file.written
              /\ ~metadata_file.written)
    /\ []((index_file.written \/ metadata_file.written) =>
              /\ ~raised
              /\ index # <<>>
              /\ Len(index) = Len(loaded))
    /\ [][~raised]_vars

\* create_faiss_index has raised on a non-empty chunk list
C16_Witness ==
    /\ raised
    /\ pc = "failed"
    /\ loaded # <<>>

\* C21: every emitted span has a size of at most the target size, unless one
\* of its lines is itself longer than the target size.
C21_SizeWithinTarget ==
    pc \in {"chunking", "enhance"} =>
        \A k \in 1..Len(chunks) :
            \/ chunks[k].size <= target_chunk_size
            \/ \E j \in chunks[k].start_line..chunks[k].end_line : IsLongLine(j)

\* the trailing preview of a text: an ellipsis in front when it was truncated
TrailingPreview(text) ==
    IF StrLen(text) > preview_size
    THEN Cat(Ellipsis, LastChars(text, preview_size))
    ELSE text

\* the leading preview of a text: an ellipsis at the end when it was truncated
LeadingPreview(text) ==
    IF StrLen(text) > preview_size
    THEN Cat(Take(text, preview_size), Ellipsis)
    ELSE text

\* C22: the previous preview of a record is the trailing 200 characters of the
\* chunk before it, marked in front only when truncated, and the next preview
\* is the leading 200 characters of the chunk after it, marked at the end only
\* when truncated.
C22_PreviewsAsSpecified ==
    \A p \in 1..Len(all_chunks) :
        /\ ~IsFirstOfDoc(p) =>
               all_chunks[p].context.prev_content
                   = TrailingPreview(all_chunks[p - 1].original)
        /\ ~IsLastOfDoc(p) =>
               all_chunks[p].context.next_content
                   = LeadingPreview(all_chunks[p + 1].original)

\* C23: every emitted span has 1 <= start_line <= end_line <= number of lines,
\* its content is the document's lines start_line..end_line joined by
\* newlines, overlap lines included, and end_line increases strictly from one
\* span to the next.
C23_SpanNamesItsLines ==
    pc \in {"chunking", "enhance"} =>
        /\ \A k \in 1..Len(chunks) :
               /\ 1 <= chunks[k].start_line
               /\ chunks[k].start_line <= chunks[k].end_line
               /\ chunks[k].end_line <= Len(lines)
               /\ chunks[k].content
                      = Join([j \in 1..(chunks[k].end_line - chunks[k].start_line + 1)
                                 |-> lines[chunks[k].start_line + j - 1]])
        /\ \A k \in 2..Len(chunks) : chunks[k - 1].end_line < chunks[k].end_line

\* semantic_chunking has returned, and its second span begins with overlap lines
C23_Witness ==
    /\ pc = "enhance"
    /\ Len(chunks) >= 2
    /\ chunks[2].start_line <= chunks[1].end_line

\* the sentences of a text: what the split yields, without the empty piece
\* that follows a final terminator
TextSentences(content) ==
    LET pieces == Sentences(content)
    IN  IF pieces[Len(pieces)] = EmptyStr
        THEN SubSeq(pieces, 1, Len(pieces) - 1)
        ELSE pieces

\* C24: for a text that splits into more than 3 sentences the summary is the
\* first sentence, the longest interior sentence and the last sentence of the
\* text, without duplicates, joined with ". " and cut to 300 characters plus
\* an ellipsis only when longer; so also for a text that ends with a
\* terminator.
C24_SummaryHasFirstLongestLast ==
    (ret.done /\ Len(Sentences(arg.content)) > few_sentences) =>
        LET sents == TextSentences(arg.content)
            parts == AppendNew(AppendNew(<<sents[1]>>,
                                         Longest(SubSeq(sents, 2, Len(sents) - 1))),
                               sents[Len(sents)])
        IN  ret.value = Shorten(JoinWith(FromChars(<<".", " ">>), parts), long_summary)

\* C25: the list of question variants never holds more than 5 questions, and
\* whenever a keyword is extracted from the text it holds a question made from
\* a keyword.
C25_KeywordQuestionPresent ==
    ret.done =>
        /\ Len(ret.value) <= max_variants
        /\ generate_keywords(arg.content) # <<>> =>
               \E k \in 1..Len(ret.value) :
               \E w \in 1..Len(generate_keywords(arg.content)) :
                   ret.value[k] \in {TellMeAbout(generate_keywords(arg.content)[w]),
                                     PolicyAbout(generate_keywords(arg.content)[w])}

\* the title of the nearest header line before line n of the document, None
\* when there is none
NearestHeaderTitle(n) ==
    IF \E j \in 1..(n - 1) : IsHeader(lines[j])
    THEN LET j == CHOOSE j \in 1..(n - 1) :
                      /\ IsHeader(lines[j])
                      /\ \A m \in (j + 1)..(n - 1) : ~IsHeader(lines[m])
         IN  Strip(Tail(lines[j]))
    ELSE None

\* C26: the nodes of the outline are in strictly increasing line_number order,
\* every list-item node has as parent_section the title of the nearest header
\* line before it (None when there is none), and a step of the loop leaves the
\* nodes appended before it as they are.
C26_OutlineOrderedAndParented ==
    /\ [](pc \in {"outline", "returned"} =>
              /\ \A k \in 2..Len(hierarchy) :
                     hierarchy[k - 1].line_number < hierarchy[k].line_number
              /\ \A k \in 1..Len(hierarchy) :
                     hierarchy[k].type = "list_item" =>
                         hierarchy[k].parent_section
                             = NearestHeaderTitle(hierarchy[k].line_number))
    /\ [][pc = "outline" =>
              /\ Len(hierarchy') >= Len(hierarchy)
              /\ SubSeq(hierarchy', 1, Len(hierarchy)) = hierarchy]_vars

\* the outline of a document with a list item before the first header, one
\* after it, and a second header after that
C26_Witness ==
    /\ pc = "returned"
    /\ Len(hierarchy) = 4
    /\ hierarchy[1].type = "list_item"
    /\ hierarchy[2].type = "header"
    /\ hierarchy[3].type = "list_item"
    /\ hierarchy[4].type = "header"
    /\ hierarchy[4].title # hierarchy[2].title

\* the chunks of all_chunks that preprocess_policies_v4 emitted for a file
V4RecordsOf(stem) ==
    SelectSeq(all_chunks, LAMBDA c : c.metadata.source_file = FileName(stem))

\* the chunks semantic_chunk_text produces for a file of the directory
V4ChunksOf(stem) == semantic_chunk_text(clean_text(inputDir[stem].content))

\* the file_stats entry of a file has been made
V4Counted(stem) == \E q \in 1..Len(file_stats) : file_stats[q][1] = FileName(stem)

\* C27: every chunk semantic_chunk_text produces except the last has at least
\* 200 characters, so only a document's final chunk can fall under the
\* 50-character filter: the chunk_index values emitted for a document are
\* 1..n without gaps, the chunk_ids are pairwise distinct, and the chunk_count
\* main reports for a file is the number of chunks emitted for it.
C27_OnlyFinalChunkDropped ==
    pc \in {"v4_loop", "v4_done"} =>
        /\ \A stem \in Readable(inputDir) :
               /\ \A k \in 1..(Len(V4ChunksOf(stem)) - 1) :
                      StrLen(V4ChunksOf(stem)[k]) >= min_chars
               /\ V4Counted(stem) =>
                      /\ Len(V4RecordsOf(stem)) >= Len(V4ChunksOf(stem)) - 1
                      /\ \A k \in 1..Len(V4RecordsOf(stem)) :
                             V4RecordsOf(stem)[k].metadata.chunk_index = k
        /\ \A p, q \in 1..Len(all_chunks) :
               p # q => all_chunks[p].chunk_id # all_chunks[q].chunk_id
        /\ \A q \in 1..Len(file_stats) :
               \A stem \in DOMAIN inputDir :
                   file_stats[q][1] = FileName(stem) =>
                       file_stats[q][2].chunk_count = Len(V4RecordsOf(stem))
        /\ stats.written => stats.data.file_statistics = file_stats

\* main has written its files for a document that gave two chunks and a final
\* chunk under 50 characters, which was dropped
C27_Witness ==
    /\ pc = "v4_done"
    /\ stats.written
    /\ \E stem \in Readable(inputDir) :
           /\ Len(V4RecordsOf(stem)) = 2
           /\ Len(V4ChunksOf(stem)) = 3

\* C28: when a document cannot be read, main goes on with the remaining
\* documents and ends with the chunks of all the readable documents written to
\* processed_chunks.json and counted in the statistics.
C28_UnreadableIsSkipped ==
    /\ [](pc \notin {"v4_start", "v4_loop"} =>
              /\ jsonl.written
              /\ stats.written
              /\ \A stem \in Readable(inputDir) :
                     /\ V4Counted(stem)
                     /\ Len(V4RecordsOf(stem)) >= Len(V4ChunksOf(stem)) - 1)
    /\ [](stats.written =>
              stats.data.total_chunks = Len(jsonl.data))

\* the documents counted in processed_files are those of all_metadata
RECURSIVE OriginalChars(_)
OriginalChars(ms) ==
    IF ms = <<>> THEN 0
    ELSE StrLen(inputDir[CHOOSE stem \in DOMAIN inputDir :
                             FileName(stem) = Head(ms).filename].content)
         + OriginalChars(Tail(ms))

RECURSIVE CleanedChars(_)
CleanedChars(ms) ==
    IF ms = <<>> THEN 0
    ELSE Head(ms).stats.char_count + CleanedChars(Tail(ms))

\* C29: in process_all_files a document whose processing or saving raises
\* leaves the statistics as they were: at any point of the loop and after it,
\* total_chars_original and total_chars_cleaned are the sums over exactly the
\* documents counted in processed_files.
C29_TotalsOfCountedDocuments ==
    pc \in {"v2_loop", "v2_done"} =>
        /\ stats.processed_files = Len(all_chunks)
        /\ stats.total_chars_original = OriginalChars(all_chunks)
        /\ stats.total_chars_cleaned = CleanedChars(all_chunks)

\* C30: extract_keywords returns at most 5 pairwise distinct keywords, and
\* the list depends on (text, filename) alone: the second execution returns,
\* for the same chunk text and file name, the list the first one stored.
C30_KeywordsRepeat ==
    /\ run = 2 =>
           /\ Len(first_run) <= max_keywords
           /\ \A j, k \in 1..Len(first_run) : j # k => first_run[j] # first_run[k]
    /\ ret.done => ret.value = first_run

=============================================================================
